---- MODULE Spec2Model ----
(***************************************************************************)
(* A model of parts of NodeBB: the MongoDB sorted-set adapter              *)
(* (src/database/mongo/sorted/add.js), the post-delay check behind         *)
(* User.isReadyToPost, the composer's no-script post handler, the web      *)
(* server (src/webserver.js: listen, testSocket, the bootstrap, the        *)
(* connection bookkeeping and destroy), the user jobs and digests, the     *)
(* category watch state controller, the cover position, the invitations,   *)
(* the login lockout and the sessions (src/user).                          *)
(*                                                                         *)
(* Each component has a specification of its own (SortedSpec, PostSpec,    *)
(* ComposerSpec, ListenSpec, TestSocketSpec, BootSpec, ConnSpec, JobsSpec, *)
(* WatchSpec, CoverSpec, InviteSpec, InviteDeleteSpec, LockoutSpec,        *)
(* SessionSpec); the variables of the other components stay at their       *)
(* initial values.                                                         *)
(***************************************************************************)
EXTENDS Integers, Sequences, FiniteSets, TLC

VARIABLES
    objects,      \* the 'objects' collection: a set of documents [_key, value, score]
    lastCall,     \* the adapter call that has just returned, or IdleCall
    config,       \* meta.config: the post-delay settings
    userData,     \* the user's joindate, lastposttime and reputation
    now,          \* Date.now(), in milliseconds
    ticks,        \* how often the clock has advanced
    readyResult,  \* how the last User.isReadyToPost settled, or NoResult
    body,         \* req.body of the composer request
    relativePath, \* nconf.get('relative_path')
    composerPc,   \* where the composer's post handler stands
    action,       \* 'reply' or 'topic', once decided
    postData,     \* the post data the handler builds
    raised,       \* the message of the error raised while handling, or NoError
    result,       \* what the queue, reply or post call returned
    responses,    \* the responses sent for the request
    escaped,      \* whether an exception left the handler
    onlineUpdated, \* whether user.updateOnlineUsers was called
    rawPort,      \* nconf.get('port')
    trustProxyCfg, \* nconf.get('trust_proxy')
    trustProxy,   \* the Express setting 'trust proxy'
    target,       \* what resolvePortOrSocket returned, or NoTarget
    umask,        \* the process umask
    umaskBefore,  \* the process umask when listen() was called
    oldUmask,     \* listen's local oldUmask: a number, or NoUmask for null
    socketFile,   \* what is at the socket path: absent, stale, live or blocked
    failedAt,     \* the step at which listen() failed, or "none"
    listenPc,     \* where listen() stands
    ts,           \* the running testSocket call: its position, argument and promise
    tsFile,       \* what is at the path testSocket is given
    boot,         \* the running exports.listen call: its position, completed steps and outcome
    conns,        \* every connection the server has accepted: its remote end, open or closed, destroyed or not
    connections,  \* the table of tracked connections, by key
    server,       \* whether the server is listening, closing or closed
    destroyCall,  \* the running destroy() call and its promise
    cronJobs,     \* every CronJob created: its name, cron time, term, running or stopped
    jobs,         \* the jobs table: the index of the CronJob stored under each name
    biweeklydigestcounter, \* the database counter 'biweeklydigestcounter'
    firings,      \* the callbacks of digest jobs that have started
    lastJobsCall, \* the last of startJobs and stopJobs to be called
    watch,        \* the running Categories.setWatchState request: method, body state, api calls and responses
    cover,        \* the running updateCoverPosition call: its position and outcome
    coverPosition, \* the user's field 'cover:position'
    invitations,  \* the invitation keys of the database
    inviteCalls,  \* the sendInvitationEmail calls made: arguments, position and outcome
    deleteCalls,  \* the deleteInvitation and deleteInvitationKey calls made: arguments, position and outcome
    lockoutDb,    \* the keys loginAttempts:<uid> and lockout:<uid> of the account
    attemptCalls, \* the logAttempt calls made: uid, position and outcome
    uidSessions,  \* the sorted set uid:<uid>:sessions, oldest first
    sessionStore, \* the session ids that have a session in the session store
    sessionsAdded, \* how many sessions have been added
    sessionCall,  \* the running addSession call
    groupDb,      \* the group keys of the database
    groupCalls,   \* the Groups.create calls made: data, position and outcome
    picFields,    \* the user's fields uploadedpicture, picture and cover:url: the uploaded file each refers to
    picFiles,     \* the picture files that exist, temporary and uploaded
    picCall       \* the running uploadCroppedPicture or updateCoverPicture call

sortedVars == <<objects, lastCall>>
postVars == <<config, userData, now, ticks, readyResult>>
composerVars ==
    <<body, relativePath, composerPc, action, postData, raised, result, responses,
      escaped, onlineUpdated>>

listenVars ==
    <<rawPort, trustProxyCfg, trustProxy, target, umask, umaskBefore, oldUmask,
      socketFile, failedAt, listenPc>>

testSocketVars == <<ts, tsFile>>

bootVars == <<boot>>

connVars == <<conns, connections, server, destroyCall>>

jobsVars == <<cronJobs, jobs, biweeklydigestcounter, firings, lastJobsCall>>

watchVars == <<watch>>

coverVars == <<cover, coverPosition>>

inviteVars == <<invitations, inviteCalls, deleteCalls>>

lockoutVars == <<lockoutDb, attemptCalls>>

sessionVars == <<uidSessions, sessionStore, sessionsAdded, sessionCall>>

groupVars == <<groupDb, groupCalls>>

pictureVars == <<picFields, picFiles, picCall>>

vars ==
    <<sortedVars, postVars, composerVars, listenVars, testSocketVars,
      bootVars, connVars, jobsVars, watchVars, coverVars, inviteVars, lockoutVars,
      sessionVars, groupVars, pictureVars>>

OnlySorted ==
    UNCHANGED <<postVars, composerVars, listenVars, testSocketVars,
      bootVars, connVars, jobsVars, watchVars, coverVars, inviteVars, lockoutVars,
      sessionVars, groupVars, pictureVars>>

OnlyPost ==
    UNCHANGED <<sortedVars, composerVars, listenVars, testSocketVars,
      bootVars, connVars, jobsVars, watchVars, coverVars, inviteVars, lockoutVars,
      sessionVars, groupVars, pictureVars>>

OnlyComposer ==
    UNCHANGED <<sortedVars, postVars, listenVars, testSocketVars,
      bootVars, connVars, jobsVars, watchVars, coverVars, inviteVars, lockoutVars,
      sessionVars, groupVars, pictureVars>>

OnlyListen ==
    UNCHANGED <<sortedVars, postVars, composerVars, testSocketVars,
      bootVars, connVars, jobsVars, watchVars, coverVars, inviteVars, lockoutVars,
      sessionVars, groupVars, pictureVars>>

OnlyTestSocket ==
    UNCHANGED <<sortedVars, postVars, composerVars, listenVars,
      bootVars, connVars, jobsVars, watchVars, coverVars, inviteVars, lockoutVars,
      sessionVars, groupVars, pictureVars>>

OnlyBoot ==
    UNCHANGED <<sortedVars, postVars, composerVars, listenVars,
      testSocketVars, connVars, jobsVars, watchVars, coverVars, inviteVars,
      lockoutVars, sessionVars, groupVars, pictureVars>>

OnlyConn ==
    UNCHANGED <<sortedVars, postVars, composerVars, listenVars,
      testSocketVars, bootVars, jobsVars, watchVars, coverVars, inviteVars,
      lockoutVars, sessionVars, groupVars, pictureVars>>

OnlyJobs ==
    UNCHANGED <<sortedVars, postVars, composerVars, listenVars,
      testSocketVars, bootVars, connVars, watchVars, coverVars, inviteVars,
      lockoutVars, sessionVars, groupVars, pictureVars>>

OnlyWatch ==
    UNCHANGED <<sortedVars, postVars, composerVars, listenVars,
      testSocketVars, bootVars, connVars, jobsVars, coverVars, inviteVars,
      lockoutVars, sessionVars, groupVars, pictureVars>>

OnlyCover ==
    UNCHANGED <<sortedVars, postVars, composerVars, listenVars,
      testSocketVars, bootVars, connVars, jobsVars, watchVars, inviteVars,
      lockoutVars, sessionVars, groupVars, pictureVars>>

OnlyInvite ==
    UNCHANGED <<sortedVars, postVars, composerVars, listenVars,
      testSocketVars, bootVars, connVars, jobsVars, watchVars, coverVars,
      lockoutVars, sessionVars, groupVars, pictureVars>>

OnlyLockout ==
    UNCHANGED <<sortedVars, postVars, composerVars, listenVars,
      testSocketVars, bootVars, connVars, jobsVars, watchVars, coverVars, inviteVars,
      sessionVars, groupVars, pictureVars>>

OnlySession ==
    UNCHANGED <<sortedVars, postVars, composerVars, listenVars,
      testSocketVars, bootVars, connVars, jobsVars, watchVars, coverVars, inviteVars,
      lockoutVars, groupVars, pictureVars>>

OnlyGroup ==
    UNCHANGED <<sortedVars, postVars, composerVars, listenVars,
      testSocketVars, bootVars, connVars, jobsVars, watchVars, coverVars, inviteVars,
      lockoutVars, sessionVars, pictureVars>>

OnlyPicture ==
    UNCHANGED <<sortedVars, postVars, composerVars, listenVars,
      testSocketVars, bootVars, connVars, jobsVars, watchVars, coverVars, inviteVars,
      lockoutVars, sessionVars, groupVars>>

(***************************************************************************)
(* JavaScript values. A string is the sequence of its characters, so that  *)
(* parsing and formatting are computed and not assumed.                    *)
(***************************************************************************)
Num(n) == [t |-> "number", n |-> n, s |-> <<>>]
Str(s) == [t |-> "string", n |-> 0, s |-> s]
Null == [t |-> "null", n |-> 0, s |-> <<>>]
NaN == [t |-> "NaN", n |-> 0, s |-> <<>>]
Bool(b) == [t |-> "boolean", n |-> IF b THEN 1 ELSE 0, s |-> <<>>]

Digits == <<"0", "1", "2", "3", "4", "5", "6", "7", "8", "9">>

IsDigit(c) == \E i \in 1..Len(Digits) : Digits[i] = c

DigitVal(c) == (CHOOSE i \in 1..Len(Digits) : Digits[i] = c) - 1

\* The longest prefix of s made of decimal digits.
RECURSIVE DigitRun(_)
DigitRun(s) ==
    IF s = <<>> \/ ~IsDigit(Head(s)) THEN <<>>
    ELSE <<Head(s)>> \o DigitRun(Tail(s))

RECURSIVE DecimalValue(_)
DecimalValue(ds) ==
    IF ds = <<>> THEN 0
    ELSE 10 * DecimalValue(SubSeq(ds, 1, Len(ds) - 1)) + DigitVal(ds[Len(ds)])

\* The decimal digits of a natural number.
RECURSIVE IntToStr(_)
IntToStr(n) ==
    IF n < 10 THEN <<Digits[n + 1]>>
    ELSE IntToStr(n \div 10) \o <<Digits[(n % 10) + 1]>>

\* String(v) / `${v}` of a scalar.
StringOf(v) ==
    CASE v.t = "number" -> IntToStr(v.n)
      [] v.t = "string" -> v.s
      [] v.t = "NaN" -> <<"N", "a", "N">>
      [] v.t = "boolean" -> IF v.n = 1 THEN <<"t", "r", "u", "e">>
                            ELSE <<"f", "a", "l", "s", "e">>
      [] OTHER -> <<"n", "u", "l", "l">>

\* Number(v): the whole string must be a numeral; '' and null convert to 0.
ToNumber(v) ==
    CASE v.t = "number" -> v
      [] v.t = "NaN" -> NaN
      [] v.t = "null" -> Num(0)
      [] v.t = "boolean" -> Num(v.n)
      [] OTHER -> IF DigitRun(v.s) = v.s THEN Num(DecimalValue(v.s)) ELSE NaN

\* parseInt(v, 10) and, on the integer numerals modelled here, parseFloat(v):
\* the value of the leading digits of String(v), NaN when there are none.
parseInt(v) ==
    IF v.t = "number" THEN v
    ELSE LET run == DigitRun(StringOf(v))
         IN  IF run = <<>> THEN NaN ELSE Num(DecimalValue(run))

parseFloat(v) == parseInt(v)

isNaN(v) == ToNumber(v).t = "NaN"

isFinite(v) == ToNumber(v).t = "number"

\* !v
Falsy(v) ==
    \/ v.t \in {"null", "NaN"}
    \/ v.t \in {"number", "boolean"} /\ v.n = 0
    \/ v.t = "string" /\ v.s = <<>>

\* utils.isNumber: a finite number or a numeric string.
isNumber(v) == parseFloat(v).t = "number" /\ isFinite(v)

\* helpers.valueToString: the member is stored as a string.
valueToString(v) == StringOf(v)

\* An argument that is either an array or a single scalar.
ArrayOf(items) == [isArray |-> TRUE, items |-> items, single |-> Null]
Single(v) == [isArray |-> FALSE, items |-> <<>>, single |-> v]

\* Array.prototype.toString: the items joined by commas, null as ''.
RECURSIVE JoinItems(_)
JoinItems(items) ==
    IF items = <<>> THEN <<>>
    ELSE LET h == IF Head(items).t = "null" THEN <<>> ELSE StringOf(Head(items))
         IN  IF Len(items) = 1 THEN h ELSE h \o <<",">> \o JoinItems(Tail(items))

Render(arg) == IF arg.isArray THEN JoinItems(arg.items) ELSE StringOf(arg.single)

SeqsUpTo(S, n) == UNION {[1..k -> S] : k \in 0..n}

(***************************************************************************)
(* The sorted-set adapter, src/database/mongo/sorted/add.js                *)
(***************************************************************************)
MaxKeys == 2
MaxItems == 2

Keys == {"k1", "k2"}

ScoreScalars == {Num(1), Str(<<"2">>), Str(<<"x">>), Null}

Values == {Num(7), Str(<<"7">>), Str(<<"a">>)}

KeysArgs == {ArrayOf(a) : a \in SeqsUpTo(Keys, MaxKeys)} \cup {Single(Null)}

ScoresArgs ==
    {ArrayOf(a) : a \in SeqsUpTo(ScoreScalars \ {Null}, MaxKeys)}
        \cup {Single(v) : v \in ScoreScalars}

BulkItems == [key : Keys, score : ScoreScalars \ {Null}, value : {Num(7)}]

DataArgs == {ArrayOf(a) : a \in SeqsUpTo(BulkItems, MaxItems)} \cup {Single(Null)}

Returned == [threw |-> FALSE, message |-> <<>>]
Threw(msg) == [threw |-> TRUE, message |-> msg]

invalidScore(text) == <<"[[error:invalid-score, ">> \o text \o <<"]]">>
invalidData == <<"[[error:invalid-data]]">>

normalizeScores(keys, scores) ==
    IF ~scores.isArray THEN
        IF ~isNumber(scores.single) THEN Threw(invalidScore(Render(scores)))
        ELSE Returned
    ELSE IF Len(scores.items) # Len(keys.items) THEN Threw(invalidData)
    ELSE IF ~(\A i \in 1..Len(scores.items) : isNumber(scores.items[i]))
         THEN Threw(invalidScore(Render(scores)))
    ELSE Returned

\* bulk.find({_key, value}).upsert().updateOne({$set: {score}})
UpsertOp(key, value, score) ==
    [_key |-> key, value |-> value, score |-> score, upsert |-> TRUE]

\* The operations the loop of sortedSetsAdd queues.
SortedSetsAddOps(keys, scores, value) ==
    [i \in 1..Len(keys.items) |->
        UpsertOp(keys.items[i], valueToString(value),
                 parseFloat(IF scores.isArray THEN scores.items[i] ELSE scores.single).n)]

\* The operations the loop of sortedSetAddBulk queues before it ends or throws.
BulkFirstInvalid(data) ==
    IF \E i \in 1..Len(data.items) : ~isNumber(data.items[i].score)
    THEN CHOOSE i \in 1..Len(data.items) :
            /\ ~isNumber(data.items[i].score)
            /\ \A j \in 1..(i - 1) : isNumber(data.items[j].score)
    ELSE 0

SortedSetAddBulkOps(data) ==
    [i \in 1..Len(data.items) |->
        UpsertOp(data.items[i].key, StringOf(data.items[i].value),
                 parseFloat(data.items[i].score).n)]

\* One update of the store: the matching document gets the score; without a
\* match the upsert inserts the document.
ApplyInsertAlways(objs, op) ==
    objs \cup {[_key |-> op._key, value |-> op.value, score |-> op.score]}

ApplyUpsert(objs, op) ==
    LET matches == {d \in objs : d._key = op._key /\ d.value = op.value}
    IN  IF matches = {} THEN
            IF op.upsert
            THEN objs \cup {[_key |-> op._key, value |-> op.value, score |-> op.score]}
            ELSE objs
        ELSE LET d == CHOOSE m \in matches : TRUE
             IN  (objs \ {d}) \cup {[d EXCEPT !.score = op.score]}

\* bulk.execute() of an unordered bulk operation: the operations are applied
\* in an order the store chooses.
RECURSIVE ApplyInOrder(_, _, _, _)
ApplyInOrder(objs, ops, order, i) ==
    IF i > Len(ops) THEN objs
    ELSE ApplyInOrder(ApplyUpsert(objs, ops[order[i]]), ops, order, i + 1)

Orders(ops) == Permutations(1..Len(ops))

\* The bulk writes a call issues for the operations it queued.
ExecutePerOperation(ops) == [i \in 1..Len(ops) |-> <<ops[i]>>]

Execute(ops) == <<ops>>

RECURSIVE ApplyWrites(_, _, _)
ApplyWrites(objs, writes, order) ==
    IF writes = <<>> THEN objs
    ELSE ApplyWrites(
            ApplyInOrder(objs, Head(writes),
                         IF Len(writes) = 1 THEN order ELSE <<1>>, 1),
            Tail(writes), order)

IdleCall ==
    [fn |-> "idle", keys |-> Single(Null), scores |-> Single(Null), value |-> Null,
     data |-> Single(Null), outcome |-> Returned, writes |-> <<>>, before |-> {}]

Call(fn, keys, scores, value, data, outcome, writes) ==
    [fn |-> fn, keys |-> keys, scores |-> scores, value |-> value, data |-> data,
     outcome |-> outcome, writes |-> writes, before |-> objects]

\* Whether normalizeScores lets the call through.
ValidationSkipsCheck(keys, scores) == Returned

Validate(keys, scores) == normalizeScores(keys, scores)

sortedSetsAdd(keys, scores, value) ==
    /\ lastCall = IdleCall
    /\ IF ~keys.isArray \/ Len(keys.items) = 0 THEN
          /\ lastCall' = Call("sortedSetsAdd", keys, scores, value, Single(Null), Returned, <<>>)
          /\ UNCHANGED objects
       ELSE IF Validate(keys, scores).threw THEN
          /\ lastCall' = Call("sortedSetsAdd", keys, scores, value, Single(Null),
                              Validate(keys, scores), <<>>)
          /\ UNCHANGED objects
       ELSE
          LET ops == SortedSetsAddOps(keys, scores, value)
              writes == Execute(ops)
          IN  \E order \in Orders(ops) :
                /\ objects' = ApplyWrites(objects, writes, order)
                /\ lastCall' = Call("sortedSetsAdd", keys, scores, value, Single(Null),
                                    Returned, writes)
    /\ OnlySorted

sortedSetAddBulk(data) ==
    /\ lastCall = IdleCall
    /\ IF ~data.isArray \/ Len(data.items) = 0 THEN
          /\ lastCall' = Call("sortedSetAddBulk", Single(Null), Single(Null), Null, data,
                              Returned, <<>>)
          /\ UNCHANGED objects
       ELSE IF BulkFirstInvalid(data) # 0 THEN
          /\ lastCall' = Call("sortedSetAddBulk", Single(Null), Single(Null), Null, data,
                              Threw(invalidScore(StringOf(data.items[BulkFirstInvalid(data)].score))),
                              <<>>)
          /\ UNCHANGED objects
       ELSE
          LET ops == SortedSetAddBulkOps(data)
              writes == Execute(ops)
          IN  \E order \in Orders(ops) :
                /\ objects' = ApplyWrites(objects, writes, order)
                /\ lastCall' = Call("sortedSetAddBulk", Single(Null), Single(Null), Null,
                                    data, Returned, writes)
    /\ OnlySorted

\* The caller takes the result; the adapter is ready for the next call.
CallReturns ==
    /\ lastCall # IdleCall
    /\ lastCall' = IdleCall
    /\ UNCHANGED objects
    /\ OnlySorted

SortedInit ==
    /\ objects = {}
    /\ lastCall = IdleCall

(***************************************************************************)
(* The post-delay check of User.isReadyToPost. Its code is not among the   *)
(* source files; it is modelled from the tests of "checkPostDelays"        *)
(* (test/posts/posts.js and its later versions), which name its three      *)
(* limits, their configuration and their error messages.                   *)
(***************************************************************************)
MaxTicks == 3

PostDelays == {0, 10}
NewbiePostDelays == {0, 10, 120}
InitialPostDelays == {0, 100}
ReputationThresholds == {0, 100}
Reputations == {0, 200}
TickSteps == {5000, 60000}

\* Date.now() when the user is created; later than any delay after the epoch.
JoinTime == 1000 * 1000

NoResult == [settled |-> FALSE, threw |-> FALSE, message |-> <<>>]
Resolved == [settled |-> TRUE, threw |-> FALSE, message |-> <<>>]
Rejected(msg) == [settled |-> TRUE, threw |-> TRUE, message |-> msg]

tooManyPosts(d) == <<"[[error:too-many-posts", ", ">> \o IntToStr(d) \o <<"]]">>

tooManyPostsNewbie(d, threshold) ==
    <<"[[error:too-many-posts", "-newbie", ", ">> \o IntToStr(d) \o <<", ">>
        \o IntToStr(threshold) \o <<"]]">>

tooManyPostsNewbieMinutes(d, threshold) ==
    <<"[[error:too-many-posts", "-newbie", "-minutes", ", ">> \o IntToStr(d \div 60)
        \o <<", ">> \o IntToStr(threshold) \o <<"]]">>

userTooNew(d) == <<"[[error:user-too-new", ", ">> \o IntToStr(d) \o <<"]]">>

\* String.prototype.startsWith, on messages cut into the pieces above.
StartsWith(msg, prefix) ==
    Len(msg) >= Len(prefix) /\ SubSeq(msg, 1, Len(prefix)) = prefix

\* The three limits: the join delay, then the newbie delay, else the standard
\* delay (the test of the minutes message turns the join delay off again; the
\* test of the join delay turns the other two off).
\* The standard delay checked first.
checkPostDelaysStandardFirst(cfg, user, time) ==
    IF time - user.lastposttime < cfg.postDelay * 1000
    THEN Rejected(tooManyPosts(cfg.postDelay))
    ELSE IF time - user.joindate < cfg.initialPostDelay * 1000
    THEN Rejected(userTooNew(cfg.initialPostDelay))
    ELSE IF /\ cfg.newbiePostDelay > 0
            /\ cfg.newbieReputationThreshold > user.reputation
            /\ time - user.lastposttime < cfg.newbiePostDelay * 1000
    THEN Rejected(tooManyPostsNewbie(cfg.newbiePostDelay, cfg.newbieReputationThreshold))
    ELSE Resolved

\* The delays compared in seconds against a difference in milliseconds.
checkPostDelaysSeconds(cfg, user, time) ==
    IF time - user.joindate < cfg.initialPostDelay * 1000
    THEN Rejected(userTooNew(cfg.initialPostDelay))
    ELSE IF /\ cfg.newbiePostDelay > 0
            /\ cfg.newbieReputationThreshold > user.reputation
            /\ time - user.lastposttime < cfg.newbiePostDelay * 1000
    THEN Rejected(tooManyPostsNewbie(cfg.newbiePostDelay, cfg.newbieReputationThreshold))
    ELSE IF time - user.lastposttime < cfg.postDelay
    THEN Rejected(tooManyPosts(cfg.postDelay))
    ELSE Resolved

\* Without the message in minutes.
checkPostDelaysNoMinutes(cfg, user, time) ==
    IF time - user.joindate < cfg.initialPostDelay * 1000
    THEN Rejected(userTooNew(cfg.initialPostDelay))
    ELSE IF /\ cfg.newbiePostDelay > 0
            /\ cfg.newbieReputationThreshold > user.reputation
            /\ time - user.lastposttime < cfg.newbiePostDelay * 1000
    THEN Rejected(tooManyPostsNewbie(cfg.newbiePostDelay, cfg.newbieReputationThreshold))
    ELSE IF time - user.lastposttime < cfg.postDelay * 1000
    THEN Rejected(tooManyPosts(cfg.postDelay))
    ELSE Resolved

checkPostDelays(cfg, user, time) ==
    IF time - user.joindate < cfg.initialPostDelay * 1000
    THEN Rejected(userTooNew(cfg.initialPostDelay))
    ELSE IF /\ cfg.newbiePostDelay > 0
            /\ cfg.newbieReputationThreshold > user.reputation
            /\ time - user.lastposttime < cfg.newbiePostDelay * 1000
    THEN IF cfg.newbiePostDelay % 60 = 0
         THEN Rejected(tooManyPostsNewbieMinutes(cfg.newbiePostDelay,
                                                 cfg.newbieReputationThreshold))
         ELSE Rejected(tooManyPostsNewbie(cfg.newbiePostDelay,
                                          cfg.newbieReputationThreshold))
    ELSE IF time - user.lastposttime < cfg.postDelay * 1000
    THEN Rejected(tooManyPosts(cfg.postDelay))
    ELSE Resolved

\* await User.isReadyToPost(uid, cid)
isReadyToPost ==
    /\ readyResult' = checkPostDelays(config, userData, now)
    /\ UNCHANGED <<config, userData, now, ticks>>
    /\ OnlyPost

\* meta.config.<field> = value
SetConfig(field, value) ==
    /\ config' = [config EXCEPT ![field] = value]
    /\ config' # config
    /\ readyResult' = NoResult
    /\ UNCHANGED <<userData, now, ticks>>
    /\ OnlyPost

\* User.setUserField(uid, 'reputation', r)
SetReputation(r) ==
    /\ userData' = [userData EXCEPT !.reputation = r]
    /\ userData' # userData
    /\ readyResult' = NoResult
    /\ UNCHANGED <<config, now, ticks>>
    /\ OnlyPost

\* db.setObjectField('user:' + uid, 'lastposttime', Date.now())
SetLastPostTime ==
    /\ userData' = [userData EXCEPT !.lastposttime = now]
    /\ userData' # userData
    /\ readyResult' = NoResult
    /\ UNCHANGED <<config, now, ticks>>
    /\ OnlyPost

\* Time passes.
Tick(dt) ==
    /\ ticks < MaxTicks
    /\ ticks' = ticks + 1
    /\ now' = now + dt
    /\ readyResult' = NoResult
    /\ UNCHANGED <<config, userData>>
    /\ OnlyPost

\* The user has just been created and has never posted (lastposttime 0);
\* every limit is off.
PostInit ==
    /\ config = [postDelay |-> 0, newbiePostDelay |-> 0, initialPostDelay |-> 0,
                 newbieReputationThreshold |-> 0]
    /\ userData = [joindate |-> JoinTime, lastposttime |-> 0, reputation |-> 0]
    /\ now = JoinTime
    /\ ticks = 0
    /\ readyResult = NoResult

(***************************************************************************)
(* The composer's no-script post handler, exports.post                     *)
(* (src/controllers/mods.js, lines 605-710)                                *)
(***************************************************************************)
Absent == <<>>

\* req.body: undefined, or an object with content, tid and cid (Absent when
\* the field is missing).
NoBody == [defined |-> FALSE, content |-> Absent, tid |-> Absent, cid |-> Absent]

Bodies ==
    {NoBody} \cup
    [defined : {TRUE}, content : {Absent, <<"hello">>}, tid : {Absent, <<"5">>},
     cid : {Absent, <<"2">>}]

RelativePaths == {<<>>, <<"/forum">>}

NoError == <<"(none)">>

invalidDataError == <<"[[error:invalid-data]]">>

\* What reading body.content of an undefined body throws.
undefinedBodyError == <<"Cannot read properties of undefined (reading 'content')">>

\* Errors the queue, reply and post calls throw.
ThrownMessages == {<<"[[error:no-privileges]]">>, tooManyPosts(10)}

NoResultYet == [kind |-> "none", queued |-> FALSE, pid |-> Absent, slug |-> Absent]

\* What posts.addToQueue, topics.reply and topics.post resolve with: a falsy
\* value, a queued entry, a post, a topic, or an object with none of these.
PostResults ==
    { [kind |-> "falsy", queued |-> FALSE, pid |-> Absent, slug |-> Absent],
      [kind |-> "object", queued |-> TRUE, pid |-> Absent, slug |-> Absent],
      [kind |-> "object", queued |-> FALSE, pid |-> <<"9">>, slug |-> Absent],
      [kind |-> "object", queued |-> FALSE, pid |-> Absent, slug |-> <<"3/title">>],
      [kind |-> "object", queued |-> FALSE, pid |-> Absent, slug |-> Absent] }

NoData == [content |-> Absent, tid |-> Absent, cid |-> Absent, req |-> FALSE,
           fromQueue |-> FALSE]

\* buildBaseData, then enrichForAction.
buildBaseData(b) == [NoData EXCEPT !.content = b.content, !.req = TRUE]

enrichForAction(d, b, act) ==
    IF act = "reply" THEN [d EXCEPT !.tid = b.tid] ELSE [d EXCEPT !.cid = b.cid]

Redirect(location) ==
    [kind |-> "redirect", status |-> 302, location |-> location, message |-> <<>>]

\* helpers.noScriptErrors(req, res, error, httpStatus)
noScriptErrors(message, status) ==
    [kind |-> "noScriptErrors", status |-> status, location |-> <<>>, message |-> message]

\* ensureContent and decideAction: the error they throw, or NoError.
ensureContent(b) == IF b.content = Absent THEN invalidDataError ELSE NoError

decideAction(b) ==
    IF b.tid # Absent THEN "reply"
    ELSE IF b.cid # Absent THEN "topic"
    ELSE "throw"

computeRedirectPath(res) ==
    IF res.pid # Absent THEN relativePath \o <<"/post/">> \o res.pid
    ELSE IF res.slug # Absent THEN relativePath \o <<"/topic/">> \o res.slug
    ELSE relativePath

queuedRedirectPath ==
    (IF relativePath = <<>> THEN <<"/">> ELSE relativePath)
        \o <<"?noScriptMessage=[[success:post-queued]]">>

\* The catch block of exports.post.
Uncaught(message) ==
    /\ raised' = message
    /\ escaped' = TRUE
    /\ composerPc' = "done"
    /\ UNCHANGED responses

Catch(message) ==
    /\ raised' = message
    /\ responses' = Append(responses, noScriptErrors(message, 400))
    /\ composerPc' = "done"
    /\ UNCHANGED escaped

\* A request arrives: the handler runs up to its await of posts.shouldQueue,
\* or to the catch block.
Post(b, relPath) ==
    /\ composerPc = "idle"
    /\ body' = b
    /\ relativePath' = relPath
    /\ IF ~b.defined THEN
          Catch(undefinedBodyError) /\ UNCHANGED <<action, postData>>
       ELSE IF ensureContent(b) # NoError THEN
          Catch(ensureContent(b)) /\ postData' = buildBaseData(b) /\ UNCHANGED action
       ELSE IF decideAction(b) = "throw" THEN
          Catch(invalidDataError) /\ postData' = buildBaseData(b) /\ UNCHANGED action
       ELSE
          /\ action' = decideAction(b)
          /\ postData' = enrichForAction(buildBaseData(b), b, decideAction(b))
          /\ composerPc' = "shouldQueue"
          /\ UNCHANGED <<raised, responses, escaped>>
    /\ UNCHANGED <<result, onlineUpdated>>
    /\ OnlyComposer

\* posts.shouldQueue settles: queueOrPost calls posts.addToQueue or the post
\* function of the action.
ShouldQueueResolves(shouldQueue) ==
    /\ composerPc = "shouldQueue"
    /\ composerPc' = IF shouldQueue THEN "addToQueue" ELSE "postFn"
    /\ postData' = IF shouldQueue THEN [postData EXCEPT !.req = FALSE] ELSE postData
    /\ UNCHANGED <<body, relativePath, action, raised, result, responses, escaped,
                   onlineUpdated>>
    /\ OnlyComposer

ShouldQueueRejects(message) ==
    /\ composerPc = "shouldQueue"
    /\ Catch(message)
    /\ UNCHANGED <<body, relativePath, action, postData, result, onlineUpdated>>
    /\ OnlyComposer

\* posts.addToQueue, topics.reply or topics.post resolves: the rest of the
\* try block runs.
PostResolves(res) ==
    /\ composerPc \in {"addToQueue", "postFn"}
    /\ result' = res
    /\ IF res.kind = "falsy" THEN
          Catch(invalidDataError) /\ UNCHANGED onlineUpdated
       ELSE IF res.queued THEN
          /\ responses' = Append(responses, Redirect(queuedRedirectPath))
          /\ composerPc' = "done"
          /\ UNCHANGED <<raised, escaped, onlineUpdated>>
       ELSE
          /\ onlineUpdated' = TRUE
          /\ responses' = Append(responses, Redirect(computeRedirectPath(res)))
          /\ composerPc' = "done"
          /\ UNCHANGED <<raised, escaped>>
    /\ UNCHANGED <<body, relativePath, action, postData>>
    /\ OnlyComposer

PostRejects(message) ==
    /\ composerPc \in {"addToQueue", "postFn"}
    /\ Catch(message)
    /\ UNCHANGED <<body, relativePath, action, postData, result, onlineUpdated>>
    /\ OnlyComposer

ComposerInit ==
    /\ body = NoBody
    /\ relativePath = <<>>
    /\ composerPc = "idle"
    /\ action = "none"
    /\ postData = NoData
    /\ raised = NoError
    /\ result = NoResultYet
    /\ responses = <<>>
    /\ escaped = FALSE
    /\ onlineUpdated = FALSE

ComposerNext ==
    \/ \E b \in Bodies, relPath \in RelativePaths : Post(b, relPath)
    \/ \E shouldQueue \in BOOLEAN : ShouldQueueResolves(shouldQueue)
    \/ \E message \in ThrownMessages : ShouldQueueRejects(message)
    \/ \E res \in PostResults : PostResolves(res)
    \/ \E message \in ThrownMessages : PostRejects(message)

(***************************************************************************)
(* Server start-up: listen() and its helpers, src/webserver.js             *)
(***************************************************************************)
MaxPorts == 2

PortScalars ==
    {Num(4567), Num(80), Num(0), Str(<<"4", "4", "3">>), Str(<<"4", "5", "6", "7">>),
     Str(<<"/", "s">>), Str(<<>>), Null}

RawPorts ==
    {Single(v) : v \in PortScalars} \cup {ArrayOf(a) : a \in SeqsUpTo(PortScalars, MaxPorts)}

\* trust_proxy in the configuration: true, false, unset, or the string 'true'.
TrustProxyCfgs == {Bool(TRUE), Bool(FALSE), Null, Str(<<"t", "r", "u", "e">>)}

Umasks == {0, 18, 63}

NoUmask == -1

NoTarget == [exits |-> FALSE, returned |-> FALSE, isSocket |-> FALSE, port |-> Null,
             socketPath |-> <<>>]

Exits == [NoTarget EXCEPT !.exits = TRUE]

Target(isSocket, port, socketPath) ==
    [exits |-> FALSE, returned |-> TRUE, isSocket |-> isSocket, port |-> port,
     socketPath |-> socketPath]

resolvePortOrSocket(raw) ==
    IF ~raw.isArray /\ isNaN(raw.single) THEN Target(TRUE, Null, StringOf(raw.single))
    ELSE IF raw.isArray /\ Len(raw.items) = 0 THEN Exits
    ELSE IF raw.isArray /\ Falsy(raw.items[1]) THEN Exits
    ELSE Target(FALSE, parseInt(IF raw.isArray THEN raw.items[1] ELSE raw.single), <<>>)

\* port !== 80 && port !== 443
IsPort(port, n) == port.t = "number" /\ port.n = n

\* The value of the setting 'trust proxy' after maybeEnableTrustProxy(app, port).
maybeEnableTrustProxy(setting, port, cfg) ==
    LET trustProxyCfgIsTrue == cfg = Bool(TRUE)
    IN  IF (~IsPort(port, 80) /\ ~IsPort(port, 443)) \/ trustProxyCfgIsTrue
        THEN trustProxyCfgIsTrue
        ELSE setting

\* exports.testSocket(socketPath): whether it resolves, and the socket file
\* it leaves. Nothing at the path: resolves. A live listener: 'port-in-use'.
\* A stale socket (ECONNREFUSED): unlinked, which may fail. Any other
\* connection error: rejects.
testSocket(file, unlinkFails) ==
    CASE file = "absent" -> [resolves |-> TRUE, file |-> "absent"]
      [] file = "live" -> [resolves |-> FALSE, file |-> "live"]
      [] file = "stale" ->
            IF unlinkFails THEN [resolves |-> FALSE, file |-> "stale"]
            ELSE [resolves |-> TRUE, file |-> "absent"]
      [] OTHER -> [resolves |-> FALSE, file |-> file]

\* The finally block of listen(): the umask it leaves.
finallyKeepsUmask(old, current) == current

finallyRestoreUmask(old, current) == IF old # NoUmask THEN old ELSE current

\* listen() up to its first await: the port is resolved, trust proxy is set
\* for a TCP port, and for a socket prepareSocket sets the umask to 0000 and
\* starts testSocket.
ListenStart ==
    /\ listenPc = "start"
    /\ umaskBefore' = umask
    /\ LET t == resolvePortOrSocket(rawPort)
       IN  /\ target' = t
           /\ IF t.exits THEN
                 /\ listenPc' = "exited"
                 /\ UNCHANGED <<trustProxy, umask, oldUmask>>
              ELSE IF t.isSocket THEN
                 /\ oldUmask' = umask
                 /\ umask' = 0
                 /\ listenPc' = "testSocket"
                 /\ UNCHANGED trustProxy
              ELSE
                 /\ trustProxy' = maybeEnableTrustProxy(trustProxy, t.port, trustProxyCfg)
                 /\ oldUmask' = NoUmask
                 /\ listenPc' = "listenAsync"
                 /\ UNCHANGED umask
    /\ UNCHANGED <<rawPort, trustProxyCfg, socketFile, failedAt>>
    /\ OnlyListen

\* testSocket settles inside prepareSocket: on failure the umask is restored
\* and the error rethrown; on success listen() calls server.listen.
TestSocketSettles(unlinkFails) ==
    /\ listenPc = "testSocket"
    /\ LET r == testSocket(socketFile, unlinkFails)
       IN  /\ socketFile' = r.file
           /\ IF r.resolves THEN
                 /\ listenPc' = "listenAsync"
                 /\ UNCHANGED <<umask, failedAt>>
              ELSE
                 /\ umask' = oldUmask
                 /\ failedAt' = "testSocket"
                 /\ listenPc' = "rejected"
    /\ UNCHANGED <<rawPort, trustProxyCfg, trustProxy, target, umaskBefore, oldUmask>>
    /\ OnlyListen

\* server.listen calls back: the server is listening.
ListenSucceeds ==
    /\ listenPc = "listenAsync"
    /\ target.isSocket \/ target.port.t = "number"
    /\ umask' = finallyRestoreUmask(oldUmask, umask)
    /\ socketFile' = IF target.isSocket THEN "live" ELSE socketFile
    /\ listenPc' = "resolved"
    /\ UNCHANGED <<rawPort, trustProxyCfg, trustProxy, target, umaskBefore, oldUmask,
                   failedAt>>
    /\ OnlyListen

\* server.listen throws (a port that is no number, a server that listens
\* already): the promise rejects, listen() logs, rethrows and runs finally.
ListenThrows ==
    /\ listenPc = "listenAsync"
    /\ umask' = finallyRestoreUmask(oldUmask, umask)
    /\ failedAt' = "listen"
    /\ listenPc' = "rejected"
    /\ UNCHANGED <<rawPort, trustProxyCfg, trustProxy, target, umaskBefore, oldUmask,
                   socketFile>>
    /\ OnlyListen

\* The bind fails later (EADDRINUSE): the server emits 'error', the handler
\* of line 86 rethrows it and the process ends; the callback is never called
\* and listen() never settles.
ListenErrorEvent ==
    /\ listenPc = "listenAsync"
    /\ target.isSocket \/ target.port.t = "number"
    /\ failedAt' = "error event"
    /\ listenPc' = "crashed"
    /\ UNCHANGED <<rawPort, trustProxyCfg, trustProxy, target, umask, umaskBefore,
                   oldUmask, socketFile>>
    /\ OnlyListen

ListenIdle ==
    /\ trustProxy = FALSE
    /\ target = NoTarget
    /\ oldUmask = NoUmask
    /\ failedAt = "none"
    /\ listenPc = "start"
    /\ umaskBefore = umask

ListenInit ==
    /\ rawPort \in RawPorts
    /\ trustProxyCfg \in TrustProxyCfgs
    /\ umask \in Umasks
    /\ socketFile \in {"absent", "stale", "live", "blocked"}
    /\ ListenIdle

ListenNext ==
    \/ ListenStart
    \/ \E unlinkFails \in BOOLEAN : TestSocketSettles(unlinkFails)
    \/ ListenSucceeds
    \/ ListenThrows
    \/ ListenErrorEvent

\* The server's configuration before the other components are exercised.
ListenDefault ==
    /\ rawPort = Single(Num(4567))
    /\ trustProxyCfg = Null
    /\ umask = 18
    /\ socketFile = "absent"
    /\ ListenIdle

(***************************************************************************)
(* exports.testSocket, src/webserver.js                                    *)
(***************************************************************************)
\* resolve() and reject() of a promise: only the first call settles it.
settle(promise, outcome) == IF promise.settled THEN promise ELSE outcome

TestSocketIdle ==
    [pc |-> "idle", path |-> Null, promise |-> NoResult, calls |-> 0, connErr |-> "none",
     unlinkErr |-> "none", unlinks |-> 0, fileBefore |-> "absent"]

\* The 'error' handler's test: only ECONNREFUSED marks the socket as stale.
unlinksOnAnyError(code) == TRUE

isStale(code) == code = "ECONNREFUSED"

\* testSocket(socketPath) up to its first await: a path that is no string
\* throws, which rejects the promise of the async function.
TestSocketCall(path) ==
    /\ ts.pc = "idle"
    /\ ts' = IF path.t # "string" THEN
                 [ts EXCEPT !.pc = "done", !.path = path, !.fileBefore = tsFile,
                            !.calls = 1,
                            !.promise = Rejected(<<"invalid socket path : ">>
                                                     \o StringOf(path))]
             ELSE [ts EXCEPT !.pc = "exists", !.path = path, !.fileBefore = tsFile]
    /\ UNCHANGED tsFile
    /\ OnlyTestSocket

\* file.exists(socketPath) resolves: nothing at the path returns, anything
\* else starts a connection to it.
FileExistsResolves ==
    /\ ts.pc = "exists"
    /\ ts' = IF tsFile = "absent" THEN
                 [ts EXCEPT !.pc = "done", !.calls = 1, !.promise = Resolved]
             ELSE [ts EXCEPT !.pc = "connecting"]
    /\ UNCHANGED tsFile
    /\ OnlyTestSocket

\* The connect callback: something listens at the path.
ConnectCallback ==
    /\ ts.pc = "connecting"
    /\ tsFile = "live"
    /\ ts' = [ts EXCEPT !.pc = "connected", !.calls = @ + 1,
                        !.promise = settle(@, Rejected(<<"port-in-use">>))]
    /\ UNCHANGED tsFile
    /\ OnlyTestSocket

\* The 'error' handler. A stale socket refuses the connection and is
\* unlinked; any other error rejects. The test socket is never closed, so an
\* error may also arrive after the connection was made.
SocketError(code) ==
    /\ \/ ts.pc = "connecting" /\ tsFile = "stale" /\ code = "ECONNREFUSED"
       \/ ts.pc = "connecting" /\ tsFile = "blocked" /\ code \in {"EACCES", "ENOTSOCK"}
       \/ ts.pc = "connected" /\ code = "ECONNRESET"
    /\ ts' = IF isStale(code) THEN
                 [ts EXCEPT !.pc = "unlinking", !.connErr = code, !.unlinks = @ + 1]
             ELSE [ts EXCEPT !.pc = "done", !.connErr = code, !.calls = @ + 1,
                             !.promise = settle(@, Rejected(<<code>>))]
    /\ UNCHANGED tsFile
    /\ OnlyTestSocket

\* The callback of fs.unlink.
UnlinkCallback(err) ==
    /\ ts.pc = "unlinking"
    /\ IF err = "none" THEN
          /\ tsFile' = "absent"
          /\ ts' = [ts EXCEPT !.pc = "done", !.calls = @ + 1,
                              !.promise = settle(@, Resolved)]
       ELSE
          /\ UNCHANGED tsFile
          /\ ts' = [ts EXCEPT !.pc = "done", !.unlinkErr = err, !.calls = @ + 1,
                              !.promise = settle(@, Rejected(<<err>>))]
    /\ OnlyTestSocket

\* The caller has seen the outcome.
TestSocketReturns ==
    /\ ts.pc \in {"done", "connected"}
    /\ ts' = TestSocketIdle
    /\ UNCHANGED tsFile
    /\ OnlyTestSocket

\* Between calls, what is at the socket path changes.
SocketFileBecomes(kind) ==
    /\ ts.pc = "idle"
    /\ tsFile # kind
    /\ tsFile' = kind
    /\ UNCHANGED ts
    /\ OnlyTestSocket

TestSocketInit == ts = TestSocketIdle /\ tsFile = "absent"

TestSocketNext ==
    \/ \E path \in {Str(<<"/", "s">>), Str(<<"/", "t">>), Str(<<"s">>), Str(<<>>),
                    Str(<<"4", "5", "6", "7">>), Str(<<"/", "t", "m", "p">>), Num(4567),
                    Num(0), Null, Bool(TRUE)} :
          TestSocketCall(path)
    \/ FileExistsResolves
    \/ ConnectCallback
    \/ \E code \in {"ECONNREFUSED", "EACCES", "ENOTSOCK", "ECONNRESET"} : SocketError(code)
    \/ \E err \in {"none", "EACCES", "EPERM"} : UnlinkCallback(err)
    \/ TestSocketReturns
    \/ \E kind \in {"absent", "stale", "live", "blocked"} : SocketFileBecomes(kind)

(***************************************************************************)
(* exports.listen and initializeNodeBB, src/webserver.js                   *)
(***************************************************************************)
\* The calls of exports.listen in program order; all but the two ready
\* notifications are awaited or synchronous.
BootSteps(runJobs) ==
    <<"emailer.registerApp", "setupExpressApp", "helpers.register", "logger.init",
      "meta.themes.setupPaths", "plugins.init", "static:assets.prepare",
      "static:app.preload", "routes", "privileges.init", "meta.blacklist.load",
      "flags.init", "analytics.init", "errors.init", "topicEvents.init">>
        \o (IF runJobs THEN <<"widgets.moveMissingAreasToDrafts">> ELSE <<>>)
        \o <<"event:nodebb.ready", "action:nodebb.ready", "listen">>

BootIdle ==
    [pc |-> 0, runJobs |-> FALSE, done |-> <<>>, failedStep |-> "none",
     outcome |-> NoResult, listening |-> FALSE, hook |-> "none"]

\* Where exports.listen goes after a step: an exception or a rejected await
\* leaves the function, anything else continues with the next statement.
continueAfterError(pc, failed) == pc + 1

afterStep(pc, failed) == IF failed THEN -1 ELSE pc + 1

\* exports.listen() is called.
ExportsListen(runJobs) ==
    /\ boot.pc = 0
    /\ boot' = [boot EXCEPT !.pc = 1, !.runJobs = runJobs]
    /\ OnlyBoot

\* The current step returns or its promise resolves. plugins.hooks.fire of
\* 'action:nodebb.ready' is not awaited: its handlers are left running. The
\* last step is listen(): the server listens and exports.listen resolves.
StepCompletes ==
    /\ boot.pc \in 1..Len(BootSteps(boot.runJobs))
    /\ LET step == BootSteps(boot.runJobs)[boot.pc]
       IN  boot' = [boot EXCEPT
                       !.pc = afterStep(@, FALSE),
                       !.done = Append(@, step),
                       !.hook = IF step = "action:nodebb.ready" THEN "running" ELSE @,
                       !.listening = step = "listen",
                       !.outcome = IF step = "listen" THEN Resolved ELSE @]
    /\ OnlyBoot

\* The current step throws or its promise rejects with the message. The
\* un-awaited hooks.fire cannot fail here: its rejection is ActionHookSettles.
StepFails(message) ==
    /\ boot.pc \in 1..Len(BootSteps(boot.runJobs))
    /\ BootSteps(boot.runJobs)[boot.pc] # "action:nodebb.ready"
    /\ LET to == afterStep(boot.pc, TRUE)
       IN  boot' = [boot EXCEPT
                       !.pc = to,
                       !.failedStep = BootSteps(boot.runJobs)[boot.pc],
                       !.outcome = IF to = -1 THEN Rejected(message) ELSE @]
    /\ OnlyBoot

\* The handlers of 'action:nodebb.ready' finish, whatever exports.listen does
\* meanwhile; a rejection is left unhandled.
ActionHookSettles(ok) ==
    /\ boot.hook = "running"
    /\ boot' = [boot EXCEPT !.hook = IF ok THEN "done" ELSE "failed"]
    /\ OnlyBoot

BootInit == boot = BootIdle

BootNext ==
    \/ \E runJobs \in BOOLEAN : ExportsListen(runJobs)
    \/ StepCompletes
    \/ \E message \in {<<"boom">>, <<"[[error:invalid-data]]">>} : StepFails(message)
    \/ \E ok \in BOOLEAN : ActionHookSettles(ok)

(***************************************************************************)
(* Connection bookkeeping and destroy(), src/webserver.js                  *)
(***************************************************************************)
MaxConns == 3

Undefined == [t |-> "undefined", n |-> 0, s |-> <<>>]

\* The remote ends of incoming connections: two TCP peers, and a peer on a
\* UNIX domain socket, whose remoteAddress and remotePort are undefined.
Remotes ==
    {[remoteAddress |-> Str(<<"10.0.0.1">>), remotePort |-> Num(5000)],
     [remoteAddress |-> Str(<<"10.0.0.2">>), remotePort |-> Num(5000)],
     [remoteAddress |-> Undefined, remotePort |-> Undefined]}

\* `${conn.remoteAddress}:${conn.remotePort}`
connKey(conn) ==
    LET text(v) == IF v.t = "undefined" THEN <<"undefined">> ELSE StringOf(v)
    IN  text(conn.remoteAddress) \o <<":">> \o text(conn.remotePort)

OpenConns == {i \in 1..Len(conns) : conns[i].state = "open"}

\* Object.keys(connections).length
getConnectionCount == Cardinality(DOMAIN connections)

DestroyIdle == [pc |-> "idle", openAtCall |-> {}, closeErr |-> FALSE, outcome |-> NoResult]

\* The 'connection' event: the connection is stored under its key. Two TCP
\* connections that are open together differ in their remote end.
ConnectionOpens(remote) ==
    /\ server = "listening"
    /\ Len(conns) < MaxConns
    /\ remote.remoteAddress.t # "undefined" =>
          \A i \in OpenConns : conns[i].remote # remote
    /\ LET conn == [remote |-> remote, state |-> "open", destroyed |-> FALSE]
           id == Len(conns) + 1
           key == connKey(remote)
       IN  /\ conns' = Append(conns, conn)
           /\ connections' =
                 [k \in DOMAIN connections \cup {key} |->
                     IF k = key THEN id ELSE connections[k]]
    /\ UNCHANGED <<server, destroyCall>>
    /\ OnlyConn

\* The 'close' event of a connection, closed by its peer or destroyed:
\* delete connections[key].
ConnectionCloses(id) ==
    /\ id \in OpenConns
    /\ conns' = [conns EXCEPT ![id].state = "closed"]
    /\ connections' =
          [k \in DOMAIN connections \ {connKey(conns[id].remote)} |-> connections[k]]
    /\ UNCHANGED <<server, destroyCall>>
    /\ OnlyConn

\* exports.destroy(): server.close(cb), then every connection in the table
\* is destroyed. A server that is not listening reports an error to cb.
Destroy ==
    /\ destroyCall.pc = "idle"
    /\ server' = IF server = "listening" THEN "closing" ELSE server
    /\ conns' = [i \in 1..Len(conns) |->
                    IF \E k \in DOMAIN connections : connections[k] = i
                    THEN [conns[i] EXCEPT !.destroyed = TRUE] ELSE conns[i]]
    /\ destroyCall' = [pc |-> "pending", openAtCall |-> OpenConns,
                       closeErr |-> server # "listening", outcome |-> NoResult]
    /\ UNCHANGED connections
    /\ OnlyConn

\* The callback of server.close: with an error at once, without one when the
\* last connection has ended.
ServerCloseCallback ==
    /\ destroyCall.pc = "pending"
    /\ IF destroyCall.closeErr THEN
          /\ destroyCall' = [destroyCall EXCEPT
                                !.pc = "settled",
                                !.outcome = Rejected(<<"ERR_SERVER_NOT_RUNNING">>)]
          /\ UNCHANGED server
       ELSE
          /\ OpenConns = {}
          /\ server' = "closed"
          /\ destroyCall' = [destroyCall EXCEPT !.pc = "settled", !.outcome = Resolved]
    /\ UNCHANGED <<conns, connections>>
    /\ OnlyConn

\* The caller has seen the outcome of destroy().
DestroyReturns ==
    /\ destroyCall.pc = "settled"
    /\ destroyCall' = DestroyIdle
    /\ UNCHANGED <<conns, connections, server>>
    /\ OnlyConn

ConnInit ==
    /\ conns = <<>>
    /\ connections = <<>>
    /\ server = "listening"
    /\ destroyCall = DestroyIdle

ConnNext ==
    \/ \E remote \in Remotes : ConnectionOpens(remote)
    \/ \E id \in 1..MaxConns : ConnectionCloses(id)
    \/ Destroy
    \/ ServerCloseCallback
    \/ DestroyReturns

(***************************************************************************)
(* The user jobs: User.startJobs, User.stopJobs and the digest jobs         *)
(***************************************************************************)
MaxStarts == 2
MaxFirings == 2

\* getDigesthour(dhour): 17 for a value that is no number, 0 for an hour
\* out of range.
getDigesthour(dhour) ==
    IF isNaN(dhour) THEN Num(17)
    ELSE IF dhour.n > 23 \/ dhour.n < 0 THEN Num(0)
    ELSE dhour

\* new cronJob(cronString, onTick, null, true): a job that runs at once,
\* stored under jobs[name]. The pair st is the CronJob objects created so
\* far and the jobs table.
startJob(st, name, cronString, term) ==
    LET job == [name |-> name, cronTime |-> cronString, term |-> term, running |-> TRUE]
    IN  [cronJobs |-> Append(st.cronJobs, job),
         jobs |-> [n \in DOMAIN st.jobs \cup {name} |->
                      IF n = name THEN Len(st.cronJobs) + 1 ELSE st.jobs[n]]]

\* User.stopJobs: every job of the table is stopped and deleted from it.
stopJobsForgets(st) == [cronJobs |-> st.cronJobs, jobs |-> <<>>]

stopJobs(st) ==
    [cronJobs |-> [i \in 1..Len(st.cronJobs) |->
                      IF \E n \in DOMAIN st.jobs : st.jobs[n] = i
                      THEN [st.cronJobs[i] EXCEPT !.running = FALSE]
                      ELSE st.cronJobs[i]],
     jobs |-> <<>>]

\* User.startJobs
startJobs(st, dhour) ==
    LET digestHour == StringOf(getDigesthour(dhour))
        cron(rest) == <<"0 ">> \o digestHour \o <<rest>>
        s0 == stopJobs(st)
        s1 == startJob(s0, "digest.daily", cron(" * * *"), "day")
        s2 == startJob(s1, "digest.weekly", cron(" * * 0"), "week")
        s3 == startJob(s2, "digest.monthly", cron(" 1 * *"), "month")
    IN  startJob(s3, "reset.clean", <<"0 0 * * *">>, "none")

\* if (counter % 2)
everyOtherEven(c) == c % 2 = 0

isBiweekly(c) == c % 2 # 0

StartJobs(dhour) ==
    /\ Len(cronJobs) < 4 * MaxStarts
    /\ LET st == startJobs([cronJobs |-> cronJobs, jobs |-> jobs], dhour)
       IN  cronJobs' = st.cronJobs /\ jobs' = st.jobs
    /\ lastJobsCall' = "startJobs"
    /\ UNCHANGED <<biweeklydigestcounter, firings>>
    /\ OnlyJobs

StopJobs ==
    /\ LET st == stopJobs([cronJobs |-> cronJobs, jobs |-> jobs])
       IN  cronJobs' = st.cronJobs /\ jobs' = st.jobs
    /\ lastJobsCall' = "stopJobs"
    /\ UNCHANGED <<biweeklydigestcounter, firings>>
    /\ OnlyJobs

\* A running digest job fires: its callback starts. (The callback of
\* reset.clean is User.reset.clean, which runs no digest.)
JobFires(i) ==
    /\ i \in 1..Len(cronJobs)
    /\ cronJobs[i].running
    /\ cronJobs[i].term # "none"
    /\ Len(firings) < MaxFirings
    /\ firings' = Append(firings,
          [name |-> cronJobs[i].name, term |-> cronJobs[i].term,
           pc |-> IF cronJobs[i].name = "digest.weekly" THEN "increment" ELSE "term",
           counter |-> 0, calls |-> <<>>, failed |-> "none"])
    /\ UNCHANGED <<cronJobs, jobs, biweeklydigestcounter, lastJobsCall>>
    /\ OnlyJobs

\* await db.increment('biweeklydigestcounter') settles; a rejection goes to
\* the catch block, which logs it.
IncrementSettles(f, ok) ==
    /\ f \in 1..Len(firings)
    /\ firings[f].pc = "increment"
    /\ IF ok THEN
          LET c == biweeklydigestcounter + 1
          IN  /\ biweeklydigestcounter' = c
              /\ firings' = [firings EXCEPT
                                ![f].counter = c,
                                ![f].pc = IF isBiweekly(c) THEN "biweek" ELSE "term"]
       ELSE
          /\ firings' = [firings EXCEPT ![f].pc = "done", ![f].failed = "increment"]
          /\ UNCHANGED biweeklydigestcounter
    /\ UNCHANGED <<cronJobs, jobs, lastJobsCall>>
    /\ OnlyJobs

\* await User.digest.execute({ interval }) settles, for 'biweek' or for the
\* job's own term; a rejection goes to the catch block.
DigestSettles(f, ok) ==
    /\ f \in 1..Len(firings)
    /\ firings[f].pc \in {"biweek", "term"}
    /\ LET interval == IF firings[f].pc = "biweek" THEN "biweek" ELSE firings[f].term
       IN  firings' = [firings EXCEPT
                          ![f].calls = Append(@, interval),
                          ![f].failed = IF ok THEN @ ELSE interval,
                          ![f].pc = IF ok /\ @ = "biweek" THEN "term" ELSE "done"]
    /\ UNCHANGED <<cronJobs, jobs, biweeklydigestcounter, lastJobsCall>>
    /\ OnlyJobs

JobsInit ==
    /\ cronJobs = <<>>
    /\ jobs = <<>>
    /\ biweeklydigestcounter = 0
    /\ firings = <<>>
    /\ lastJobsCall = "none"

JobsNext ==
    \/ \E dhour \in {Num(5), Num(24), NaN} : StartJobs(dhour)
    \/ StopJobs
    \/ \E i \in 1..(4 * MaxStarts) : JobFires(i)
    \/ \E f \in 1..MaxFirings, ok \in BOOLEAN : IncrementSettles(f, ok)
    \/ \E f \in 1..MaxFirings, ok \in BOOLEAN : DigestSettles(f, ok)

(***************************************************************************)
(* Categories.setWatchState, src/controllers/write/categories.js           *)
(***************************************************************************)
\* categories.watchStates: the integer of each watch state name.
watchStates == [ignoring |-> 1, notwatching |-> 2, tracking |-> 3, watching |-> 4]

\* Object.keys(categories.watchStates).includes(state)
isWatchStateName(state) ==
    state.t = "string" /\ Len(state.s) = 1 /\ state.s[1] \in DOMAIN watchStates

\* The state the handler passes on, or the error it throws.
bodyStateFirst(method, state, defaultName) ==
    IF isWatchStateName(state) THEN [threw |-> FALSE, state |-> watchStates[state.s[1]]]
    ELSE IF method = "DELETE" THEN [threw |-> FALSE, state |-> watchStates[defaultName]]
    ELSE [threw |-> TRUE, state |-> 0]

resolveWatchState(method, state, defaultName) ==
    IF method = "DELETE" THEN [threw |-> FALSE, state |-> watchStates[defaultName]]
    ELSE IF isWatchStateName(state) THEN
        [threw |-> FALSE, state |-> watchStates[state.s[1]]]
    ELSE [threw |-> TRUE, state |-> 0]

WatchIdle ==
    [pc |-> "idle", method |-> "none", state |-> Null, defaultName |-> "watching",
     apiCalls |-> <<>>, responses |-> <<>>, outcome |-> NoResult]

\* Categories.setWatchState(req, res) up to its await: the state is chosen
\* and api.categories.setWatchState is called, or the handler throws.
SetWatchState(method, state, defaultName) ==
    /\ watch.pc = "idle"
    /\ LET r == resolveWatchState(method, state, defaultName)
           w == [watch EXCEPT !.method = method, !.state = state,
                              !.defaultName = defaultName]
       IN  watch' = IF r.threw THEN
                        [w EXCEPT !.pc = "done",
                                  !.outcome = Rejected(<<"[[error:invalid-data]]">>)]
                    ELSE [w EXCEPT !.pc = "api", !.apiCalls = Append(@, r.state)]
    /\ OnlyWatch

\* api.categories.setWatchState settles: its cids are sent with status 200,
\* or its error leaves the handler.
ApiSettles(message) ==
    /\ watch.pc = "api"
    /\ watch' = IF message = <<>> THEN
                    [watch EXCEPT !.pc = "done", !.outcome = Resolved,
                                  !.responses = Append(@, 200)]
                ELSE [watch EXCEPT !.pc = "done", !.outcome = Rejected(message)]
    /\ OnlyWatch

\* The request is over.
WatchReturns ==
    /\ watch.pc = "done"
    /\ watch' = WatchIdle
    /\ OnlyWatch

WatchInit == watch = WatchIdle

WatchNext ==
    \/ \E method \in {"PUT", "POST", "DELETE"},
          state \in {Str(<<"watching">>), Str(<<"tracking">>), Str(<<"ignoring">>),
                     Str(<<"bogus">>), Str(<<"constructor">>), Str(<<>>), Num(3), Null},
          defaultName \in {"watching", "notwatching", "tracking"} :
          SetWatchState(method, state, defaultName)
    \/ \E message \in {<<>>, <<"[[error:no-privileges]]">>} : ApiSettles(message)
    \/ WatchReturns

(***************************************************************************)
(* updateCoverPosition, src/user/picture.js                                *)
(***************************************************************************)
MaxPosLen == 5

PositionChars == {"5", ".", "%", " ", "x"}

\* [\d.]+ on the whole of s
isDigitsAndDots(s) == s # <<>> /\ \A i \in 1..Len(s) : IsDigit(s[i]) \/ s[i] = "."

\* /^[\d.]+%\s[\d.]+%$/.test(position)
matchesPosition(s) ==
    \E i \in 1..Len(s) :
        /\ i + 1 < Len(s)
        /\ isDigitsAndDots(SubSeq(s, 1, i - 1))
        /\ s[i] = "%"
        /\ s[i + 1] \in {" ", "\t", "\n"}
        /\ isDigitsAndDots(SubSeq(s, i + 2, Len(s) - 1))
        /\ s[Len(s)] = "%"

CoverIdle == [pc |-> "idle", position |-> <<>>, before |-> <<>>, outcome |-> NoResult]

\* updateCoverPosition(User, uid, position) up to its await: a position that
\* fails the test throws, any other is handed to User.setUserField.
UpdateCoverPosition(position) ==
    /\ cover.pc = "idle"
    /\ cover' = IF ~matchesPosition(position) THEN
                    [pc |-> "done", position |-> position, before |-> coverPosition,
                     outcome |-> Rejected(<<"[[error:invalid-data]]">>)]
                ELSE [pc |-> "setUserField", position |-> position,
                      before |-> coverPosition, outcome |-> NoResult]
    /\ UNCHANGED coverPosition
    /\ OnlyCover

\* User.setUserField(uid, 'cover:position', position) settles.
SetUserFieldSettles(ok) ==
    /\ cover.pc = "setUserField"
    /\ IF ok THEN
          /\ coverPosition' = cover.position
          /\ cover' = [cover EXCEPT !.pc = "done", !.outcome = Resolved]
       ELSE
          /\ UNCHANGED coverPosition
          /\ cover' = [cover EXCEPT !.pc = "done", !.outcome = Rejected(<<"db error">>)]
    /\ OnlyCover

\* The caller has seen the outcome.
CoverReturns ==
    /\ cover.pc = "done"
    /\ cover' = CoverIdle
    /\ UNCHANGED coverPosition
    /\ OnlyCover

CoverInit == cover = CoverIdle /\ coverPosition = <<>>

CoverNext ==
    \/ /\ cover.pc = "idle"
       /\ \E position \in SeqsUpTo(PositionChars, MaxPosLen) : UpdateCoverPosition(position)
    \/ \E ok \in BOOLEAN : SetUserFieldSettles(ok)
    \/ CoverReturns

(***************************************************************************)
(* Invitations: User.sendInvitationEmail, src/user/invite.js               *)
(***************************************************************************)
MaxInvites == 2

\* uid 0 is falsy, uid 1 is a user, uid 2 is the uid of no user.
InviteUids == {0, 1, 2}
InviteEmails == {"a@x", "b@x", "user@x"}
RegisteredEmails == {"user@x"}

\* The invitation keys of the database, empty.
NoInvitations ==
    [uidInvites |-> [u \in InviteUids |-> {}],
     uids |-> {},
     invited |-> [p \in InviteUids \X InviteEmails |-> 0],
     emailTokens |-> [e \in InviteEmails |-> {}],
     tokens |-> {}]

\* The database writes of prepareInvitation, one per await, in order.
prepareWrite(db, step, uid, email, token) ==
    CASE step = 1 -> [db EXCEPT !.uidInvites[uid] = @ \cup {email}]
      [] step = 2 -> [db EXCEPT !.uids = @ \cup {uid}]
      [] step = 3 -> [db EXCEPT !.invited[<<uid, email>>] = token]
      [] step = 4 -> [db EXCEPT !.emailTokens[email] = @ \cup {token}]
      [] step = 5 -> [db EXCEPT !.tokens = @ \cup
                          {[token |-> token, email |-> email, inviter |-> uid,
                            expires |-> FALSE]}]
      [] OTHER -> [db EXCEPT !.tokens =
                      {IF t.token = token THEN [t EXCEPT !.expires = TRUE] ELSE t : t \in @}]

\* The invitations of the inviter to the email whose token object exists.
PendingTokens(db, uid, email) ==
    {t \in db.tokens : t.inviter = uid /\ t.email = email}

\* User.sendInvitationEmail(uid, email) up to its first await.
SendInvitationEmail(uid, email) ==
    /\ Len(inviteCalls) < MaxInvites
    /\ inviteCalls' = Append(inviteCalls,
          [uid |-> uid, email |-> email, step |-> 0, sawPending |-> FALSE,
           sent |-> FALSE,
           pc |-> IF uid = 0 THEN "done" ELSE "getUidByEmail",
           outcome |-> IF uid = 0 THEN Rejected(<<"[[error:invalid-uid]]">>) ELSE NoResult])
    /\ UNCHANGED invitations
    /\ UNCHANGED deleteCalls
    /\ OnlyInvite

\* The await at which call c stands settles, and the call runs to its next
\* await: User.getUidByEmail, db.exists of the inviter's key for the email,
\* User.exists of prepareInvitation, then its six database writes. The token
\* of call c is c.
InviteStep(c) ==
    /\ c \in 1..Len(inviteCalls)
    /\ LET call == inviteCalls[c]
           finish(outcome) == [call EXCEPT !.pc = "done", !.outcome = outcome]
       IN  CASE call.pc = "getUidByEmail" ->
                  /\ inviteCalls' = [inviteCalls EXCEPT ![c] =
                        IF call.email \in RegisteredEmails THEN finish(Resolved)
                        ELSE [call EXCEPT !.pc = "exists"]]
                  /\ UNCHANGED invitations
             [] call.pc = "exists" ->
                  /\ inviteCalls' = [inviteCalls EXCEPT ![c] =
                        IF invitations.invited[<<call.uid, call.email>>] # 0 THEN
                            [finish(Rejected(<<"[[error:email-invited]]">>)) EXCEPT
                                !.sawPending =
                                    PendingTokens(invitations, call.uid, call.email) # {}]
                        ELSE [call EXCEPT !.pc = "userExists"]]
                  /\ UNCHANGED invitations
             [] call.pc = "userExists" ->
                  /\ inviteCalls' = [inviteCalls EXCEPT ![c] =
                        IF call.uid # 1 THEN finish(Rejected(<<"[[error:invalid-uid]]">>))
                        ELSE [call EXCEPT !.pc = "write", !.step = 1]]
                  /\ UNCHANGED invitations
             [] call.pc = "write" ->
                  /\ invitations' =
                        prepareWrite(invitations, call.step, call.uid, call.email, c)
                  /\ inviteCalls' = [inviteCalls EXCEPT ![c] =
                        IF call.step = 6 THEN [call EXCEPT !.pc = "sendToEmail"]
                        ELSE [call EXCEPT !.step = @ + 1]]
             [] OTHER -> FALSE
    /\ UNCHANGED deleteCalls
    /\ OnlyInvite

\* emailer.sendToEmail settles: the mail is sent, or the error leaves
\* sendInvitationEmail with the invitation recorded.
SendToEmailSettles(c, ok) ==
    /\ c \in 1..Len(inviteCalls)
    /\ inviteCalls[c].pc = "sendToEmail"
    /\ inviteCalls' = [inviteCalls EXCEPT
                          ![c].pc = "done",
                          ![c].sent = ok,
                          ![c].outcome = IF ok THEN Resolved
                                         ELSE Rejected(<<"[[error:sendmail-not-found]]">>)]
    /\ UNCHANGED invitations
    /\ UNCHANGED deleteCalls
    /\ OnlyInvite

\* The expiry set by db.pexpireAt passes: the token object is gone. The
\* inviter's key for the email has no expiry.
TokenExpires(token) ==
    /\ \E t \in invitations.tokens : t.token = token /\ t.expires
    /\ invitations' = [invitations EXCEPT !.tokens = {t \in @ : t.token # token}]
    /\ UNCHANGED inviteCalls
    /\ UNCHANGED deleteCalls
    /\ OnlyInvite

InviteInit == invitations = NoInvitations /\ inviteCalls = <<>> /\ deleteCalls = <<>>

InviteNext ==
    \/ \E uid \in InviteUids, email \in InviteEmails : SendInvitationEmail(uid, email)
    \/ \E c \in 1..MaxInvites : InviteStep(c)
    \/ \E c \in 1..MaxInvites, ok \in BOOLEAN : SendToEmailSettles(c, ok)
    \/ \E token \in 1..MaxInvites : TokenExpires(token)

(***************************************************************************)
(* Deleting invitations: User.deleteInvitation, User.deleteInvitationKey   *)
(* and deleteFromReferenceList, src/user/invite.js                         *)
(***************************************************************************)
MaxDeletes == 1

\* The username of uid 1, and a username of no user.
InviteUsernames == {"user1", "nobody"}
\* The emails invitations are deleted for; NoEmail is a falsy
\* registrationEmail.
NoEmail == ""
DeleteEmails == {"a@x", "b@x"}

\* deleteFromReferenceList(uid, email) as it starts: the two commands of its
\* Promise.all are issued and none has run.
NewRef(uid, email) ==
    [uid |-> uid, email |-> email, pending |-> {"setRemove", "delete"}, pc |-> "all"]

\* One database command of deleteFromReferenceList settles: db.setRemove of
\* the email or db.delete of the inviter's key (in either order), then
\* db.setCount, then db.setRemove of the uid from 'invitation:uids' when the
\* count read was 0.
refDb(db, ref, op) ==
    CASE ref.pc = "all" /\ op = "setRemove" ->
            [db EXCEPT !.uidInvites[ref.uid] = @ \ {ref.email}]
      [] ref.pc = "all" /\ op = "delete" ->
            [db EXCEPT !.invited[<<ref.uid, ref.email>>] = 0]
      [] ref.pc = "setRemoveUids" -> [db EXCEPT !.uids = @ \ {ref.uid}]
      [] OTHER -> db

refNext(db, ref, op) ==
    CASE ref.pc = "all" ->
            [ref EXCEPT !.pending = @ \ {op},
                        !.pc = IF ref.pending = {op} THEN "setCount" ELSE "all"]
      [] ref.pc = "setCount" ->
            [ref EXCEPT !.pc = IF Cardinality(db.uidInvites[ref.uid]) = 0
                                 THEN "setRemoveUids" ELSE "done"]
      [] OTHER -> [ref EXCEPT !.pc = "done"]

\* What a call does once everything it awaits together has settled.
deleteJoin(call) ==
    IF call.pending # {} \/ \E r \in call.refs : r.pc # "done" THEN call
    ELSE CASE call.pc = "all" -> [call EXCEPT !.pc = "done", !.outcome = Resolved]
           [] call.pc = "refs" -> [call EXCEPT !.pc = "getSetMembers"]
           [] call.pc = "tokenRef" -> [call EXCEPT !.pc = "deleteAllToken"]
           [] OTHER -> call

NewDeleteCall(op, invitedBy, email, token, pc) ==
    [op |-> op, invitedBy |-> invitedBy, email |-> email, token |-> token,
     pc |-> pc, refs |-> {}, pending |-> {}, read |-> {}, outcome |-> NoResult]

\* User.deleteInvitation(invitedBy, email) up to its first await.
DeleteInvitation(invitedBy, email) ==
    /\ Len(deleteCalls) < MaxDeletes
    /\ deleteCalls' = Append(deleteCalls,
          NewDeleteCall("deleteInvitation", invitedBy, email, 0, "getUidByUsername"))
    /\ UNCHANGED <<invitations, inviteCalls>>
    /\ OnlyInvite

\* User.deleteInvitationKey(registrationEmail, token) up to its first await.
DeleteInvitationKey(registrationEmail, token) ==
    /\ Len(deleteCalls) < MaxDeletes
    /\ deleteCalls' = Append(deleteCalls,
          LET call == NewDeleteCall("deleteInvitationKey", "", registrationEmail, token,
                          IF registrationEmail # NoEmail THEN "getInvitingUsers"
                          ELSE IF token # 0 THEN "getObject" ELSE "done")
          IN  IF call.pc = "done" THEN [call EXCEPT !.outcome = Resolved] ELSE call)
    /\ UNCHANGED <<invitations, inviteCalls>>
    /\ OnlyInvite

\* The await at which delete call c stands settles and the call runs to its
\* next await.
DeleteStep(c) ==
    /\ c \in 1..Len(deleteCalls)
    /\ LET call == deleteCalls[c]
           tokenObjects == {t \in invitations.tokens : t.token = call.token}
       IN  CASE call.pc = "getUidByUsername" ->
                  /\ deleteCalls' = [deleteCalls EXCEPT ![c] =
                        IF call.invitedBy # "user1" THEN
                            [call EXCEPT !.pc = "done",
                                         !.outcome = Rejected(<<"[[error:invalid-username]]">>)]
                        ELSE [call EXCEPT !.pc = "get"]]
                  /\ UNCHANGED invitations
             [] call.pc = "get" ->
                  /\ deleteCalls' = [deleteCalls EXCEPT ![c] =
                        [call EXCEPT !.token = invitations.invited[<<1, call.email>>],
                                     !.refs = {NewRef(1, call.email)},
                                     !.pending = {"setRemove", "delete"},
                                     !.pc = "all"]]
                  /\ UNCHANGED invitations
             [] call.pc = "getInvitingUsers" ->
                  /\ deleteCalls' = [deleteCalls EXCEPT ![c] =
                        deleteJoin([call EXCEPT
                            !.refs = {NewRef(uid, call.email) : uid \in invitations.uids},
                            !.pc = "refs"])]
                  /\ UNCHANGED invitations
             [] call.pc = "getSetMembers" ->
                  /\ deleteCalls' = [deleteCalls EXCEPT ![c] =
                        [call EXCEPT !.read = invitations.emailTokens[call.email],
                                     !.pc = "deleteAll"]]
                  /\ UNCHANGED invitations
             [] call.pc = "deleteAll" ->
                  /\ invitations' = [invitations EXCEPT
                        !.emailTokens[call.email] = {},
                        !.tokens = {t \in @ : t.token \notin call.read}]
                  /\ deleteCalls' = [deleteCalls EXCEPT ![c] =
                        IF call.token # 0 THEN [call EXCEPT !.pc = "getObject"]
                        ELSE [call EXCEPT !.pc = "done", !.outcome = Resolved]]
             [] call.pc = "getObject" ->
                  /\ deleteCalls' = [deleteCalls EXCEPT ![c] =
                        IF tokenObjects = {} THEN
                            [call EXCEPT !.pc = "done", !.outcome = Resolved]
                        ELSE LET invite == CHOOSE t \in tokenObjects : TRUE
                             IN  [call EXCEPT !.refs = {NewRef(invite.inviter, invite.email)},
                                              !.email = invite.email,
                                              !.pc = "tokenRef"]]
                  /\ UNCHANGED invitations
             [] call.pc = "deleteAllToken" ->
                  /\ invitations' = [invitations EXCEPT
                        !.emailTokens[call.email] = {},
                        !.tokens = {t \in @ : t.token # call.token}]
                  /\ deleteCalls' = [deleteCalls EXCEPT ![c] =
                        [call EXCEPT !.pc = "done", !.outcome = Resolved]]
             [] OTHER -> FALSE
    /\ UNCHANGED inviteCalls
    /\ OnlyInvite

\* A database command of a deleteFromReferenceList of delete call c settles.
RefStep(c, uid, op) ==
    /\ c \in 1..Len(deleteCalls)
    /\ \E ref \in deleteCalls[c].refs :
          /\ ref.uid = uid
          /\ ref.pc # "done"
          /\ IF ref.pc = "all" THEN op \in ref.pending ELSE op = "setRemove"
          /\ invitations' = refDb(invitations, ref, op)
          /\ deleteCalls' = [deleteCalls EXCEPT ![c] =
                deleteJoin([@ EXCEPT !.refs =
                    (@ \ {ref}) \cup {refNext(invitations, ref, op)}])]
    /\ UNCHANGED inviteCalls
    /\ OnlyInvite

\* One of the two commands deleteInvitation issues beside
\* deleteFromReferenceList settles: db.setRemove of the token from
\* invitation:invited:<email>, or db.delete of the token object.
DeleteInvitationCommand(c, op) ==
    /\ c \in 1..Len(deleteCalls)
    /\ op \in deleteCalls[c].pending
    /\ LET call == deleteCalls[c]
       IN  /\ invitations' =
                 IF op = "setRemove" THEN
                     [invitations EXCEPT !.emailTokens[call.email] = @ \ {call.token}]
                 ELSE [invitations EXCEPT !.tokens = {t \in @ : t.token # call.token}]
           /\ deleteCalls' = [deleteCalls EXCEPT ![c] =
                 deleteJoin([call EXCEPT !.pending = @ \ {op}])]
    /\ UNCHANGED inviteCalls
    /\ OnlyInvite

InviteDeleteNext ==
    \/ \E email \in DeleteEmails : SendInvitationEmail(1, email)
    \/ \E c \in 1..MaxInvites : InviteStep(c)
    \/ \E c \in 1..MaxInvites : SendToEmailSettles(c, TRUE)
    \/ \E invitedBy \in InviteUsernames, email \in DeleteEmails :
          DeleteInvitation(invitedBy, email)
    \/ \E email \in DeleteEmails \cup {NoEmail}, token \in 0..MaxInvites :
          DeleteInvitationKey(email, token)
    \/ \E c \in 1..MaxDeletes : DeleteStep(c)
    \/ \E c \in 1..MaxDeletes, uid \in InviteUids, op \in {"setRemove", "delete"} :
          RefStep(c, uid, op)
    \/ \E c \in 1..MaxDeletes, op \in {"setRemove", "delete"} :
          DeleteInvitationCommand(c, op)

(***************************************************************************)
(* Login attempts and lockout: logAttempt, src/user/invite.js              *)
(***************************************************************************)
MaxAttemptCalls == 3

\* meta.config.loginAttempts
loginAttempts == 1

\* The keys loginAttempts:<uid> and lockout:<uid> of one account. A key with
\* an expiry may expire.
NoLockout ==
    [attempts |-> 0, attemptsExpire |-> FALSE, lockout |-> FALSE, lockoutExpires |-> FALSE]

\* logAttempt(uid, ip) up to its first await: a uid that parses to no
\* positive number returns at once.
LogAttempt(uid) ==
    /\ Len(attemptCalls) < MaxAttemptCalls
    /\ LET valid == parseInt(uid).t = "number" /\ parseInt(uid).n > 0
       IN  attemptCalls' = Append(attemptCalls,
              [uid |-> uid, attempts |-> 0, lockedAtReturn |-> FALSE,
               pc |-> IF valid THEN "exists" ELSE "done",
               outcome |-> IF valid THEN NoResult ELSE Resolved])
    /\ UNCHANGED lockoutDb
    /\ OnlyLockout

\* The await at which call c stands settles and the call runs to its next
\* await: db.exists of the lockout, db.increment of the counter, then either
\* db.pexpire of the counter and return, or db.set of the lockout, db.delete
\* of the counter, db.pexpire of the lockout, events.log (which may fail) and
\* the throw.
LogAttemptStep(c, ok) ==
    /\ c \in 1..Len(attemptCalls)
    /\ ok \/ attemptCalls[c].pc = "events.log"
    /\ LET call == attemptCalls[c]
           to(pc) == [attemptCalls EXCEPT ![c].pc = pc]
           finish(outcome) ==
               [attemptCalls EXCEPT ![c].pc = "done", ![c].outcome = outcome,
                                    ![c].lockedAtReturn = lockoutDb.lockout]
       IN  CASE call.pc = "exists" ->
                  /\ attemptCalls' =
                        IF lockoutDb.lockout
                        THEN finish(Rejected(<<"[[error:account-locked]]">>))
                        ELSE to("increment")
                  /\ UNCHANGED lockoutDb
             [] call.pc = "increment" ->
                  /\ lockoutDb' = [lockoutDb EXCEPT !.attempts = @ + 1]
                  /\ attemptCalls' =
                        [attemptCalls EXCEPT
                            ![c].attempts = lockoutDb.attempts + 1,
                            ![c].pc = IF lockoutDb.attempts + 1 <= loginAttempts
                                      THEN "pexpire attempts" ELSE "set lockout"]
             [] call.pc = "pexpire attempts" ->
                  /\ lockoutDb' = [lockoutDb EXCEPT !.attemptsExpire = @ \/ lockoutDb.attempts > 0]
                  /\ attemptCalls' = finish(Resolved)
             [] call.pc = "set lockout" ->
                  /\ lockoutDb' = [lockoutDb EXCEPT !.lockout = TRUE, !.lockoutExpires = FALSE]
                  /\ attemptCalls' = to("delete attempts")
             [] call.pc = "delete attempts" ->
                  /\ lockoutDb' = [lockoutDb EXCEPT !.attempts = 0, !.attemptsExpire = FALSE]
                  /\ attemptCalls' = to("pexpire lockout")
             [] call.pc = "pexpire lockout" ->
                  /\ lockoutDb' = [lockoutDb EXCEPT !.lockoutExpires = lockoutDb.lockout]
                  /\ attemptCalls' = to("events.log")
             [] call.pc = "events.log" ->
                  /\ attemptCalls' =
                        finish(IF ok THEN Rejected(<<"[[error:account-locked]]">>)
                               ELSE Rejected(<<"events.log failed">>))
                  /\ UNCHANGED lockoutDb
             [] OTHER -> FALSE
    /\ OnlyLockout

\* A key with an expiry expires.
KeyExpires(key) ==
    /\ lockoutDb' =
          IF key = "lockout" /\ lockoutDb.lockoutExpires THEN
              [lockoutDb EXCEPT !.lockout = FALSE, !.lockoutExpires = FALSE]
          ELSE IF key = "loginAttempts" /\ lockoutDb.attemptsExpire THEN
              [lockoutDb EXCEPT !.attempts = 0, !.attemptsExpire = FALSE]
          ELSE lockoutDb
    /\ lockoutDb' # lockoutDb
    /\ UNCHANGED attemptCalls
    /\ OnlyLockout

\* clearLoginAttempts(uid)
ClearLoginAttempts ==
    /\ lockoutDb.attempts > 0
    /\ lockoutDb' = [lockoutDb EXCEPT !.attempts = 0, !.attemptsExpire = FALSE]
    /\ UNCHANGED attemptCalls
    /\ OnlyLockout

\* resetLockout(uid)
ResetLockout ==
    /\ lockoutDb # NoLockout
    /\ lockoutDb' = NoLockout
    /\ UNCHANGED attemptCalls
    /\ OnlyLockout

LockoutInit == lockoutDb = NoLockout /\ attemptCalls = <<>>

LockoutNext ==
    \/ \E uid \in {Num(1), Str(<<"1">>), Num(0), Str(<<"x">>), Null} : LogAttempt(uid)
    \/ \E c \in 1..MaxAttemptCalls, ok \in BOOLEAN : LogAttemptStep(c, ok)
    \/ \E key \in {"lockout", "loginAttempts"} : KeyExpires(key)
    \/ ClearLoginAttempts
    \/ ResetLockout

(***************************************************************************)
(* Sessions: addSession, src/user/invite.js                                *)
(***************************************************************************)
MaxSessions == 3

SessionIdle == [pc |-> "idle", uid |-> Null, sid |-> 0, max |-> 0, activeSids |-> <<>>]

\* Array.prototype.push returns the new length of the array, a number.
push(items, item) == Single(Num(Len(items) + 1))

\* revokeSessionsAboveThreshold(activeSids, uid, User): the sessions it
\* revokes. The length of a value that is no array is undefined, and
\* undefined > n is false.
sessionsToRevoke(activeSids, max) ==
    IF max > 0 /\ activeSids.isArray /\ Len(activeSids.items) > max
    THEN SubSeq(activeSids.items, 1, Len(activeSids.items) - max)
    ELSE <<>>

\* addSession(uid, sessionId) up to its first await, with
\* meta.config.maxUserSessions = max; a uid that parses to no positive
\* number returns at once.
AddSession(uid, max) ==
    /\ sessionCall.pc = "idle"
    /\ sessionsAdded < MaxSessions
    /\ sessionCall' =
          [pc |-> IF parseInt(uid).t = "number" /\ parseInt(uid).n > 0
                  THEN "cleanExpiredSessions" ELSE "done",
           uid |-> uid, sid |-> sessionsAdded + 1, max |-> max, activeSids |-> <<>>]
    /\ UNCHANGED <<uidSessions, sessionStore, sessionsAdded>>
    /\ OnlySession

\* cleanExpiredSessions(uid): the sids without a session in the store are
\* removed from uid:<uid>:sessions, the others are returned, oldest first.
CleanExpiredSessions ==
    /\ sessionCall.pc = "cleanExpiredSessions"
    /\ LET active == SelectSeq(uidSessions, LAMBDA sid : sid \in sessionStore)
       IN  /\ uidSessions' = active
           /\ sessionCall' = [sessionCall EXCEPT !.pc = "sortedSetAdd", !.activeSids = active]
    /\ UNCHANGED <<sessionStore, sessionsAdded>>
    /\ OnlySession

\* db.sortedSetAdd(`uid:${uid}:sessions`, Date.now(), sessionId); the session
\* itself is in the store since the login.
SortedSetAddSession ==
    /\ sessionCall.pc = "sortedSetAdd"
    /\ uidSessions' = Append(uidSessions, sessionCall.sid)
    /\ sessionStore' = sessionStore \cup {sessionCall.sid}
    /\ sessionsAdded' = sessionsAdded + 1
    /\ sessionCall' = [sessionCall EXCEPT !.pc = "revoke"]
    /\ OnlySession

\* revokeSessionsAboveThreshold(activeSids.push(sessionId), uid, User):
\* revokeSession removes the sessions from the sorted set and the store.
RevokeSessionsAboveThreshold ==
    /\ sessionCall.pc = "revoke"
    /\ LET revoked == sessionsToRevoke(push(sessionCall.activeSids, sessionCall.sid),
                                       sessionCall.max)
           gone == {revoked[i] : i \in 1..Len(revoked)}
       IN  /\ uidSessions' = SelectSeq(uidSessions, LAMBDA sid : sid \notin gone)
           /\ sessionStore' = sessionStore \ gone
    /\ sessionCall' = [sessionCall EXCEPT !.pc = "done"]
    /\ UNCHANGED sessionsAdded
    /\ OnlySession

\* The caller has seen addSession complete.
AddSessionReturns ==
    /\ sessionCall.pc = "done"
    /\ sessionCall' = SessionIdle
    /\ UNCHANGED <<uidSessions, sessionStore, sessionsAdded>>
    /\ OnlySession

\* A session expires in the session store, between calls.
SessionExpires(sid) ==
    /\ sessionCall.pc = "idle"
    /\ sid \in sessionStore
    /\ sessionStore' = sessionStore \ {sid}
    /\ UNCHANGED <<uidSessions, sessionCall, sessionsAdded>>
    /\ OnlySession

SessionInit ==
    /\ uidSessions = <<>>
    /\ sessionStore = {}
    /\ sessionsAdded = 0
    /\ sessionCall = SessionIdle

SessionNext ==
    \/ \E uid \in {Num(1), Str(<<"1">>), Num(0)}, max \in 0..2 : AddSession(uid, max)
    \/ CleanExpiredSessions
    \/ SortedSetAddSession
    \/ RevokeSessionsAboveThreshold
    \/ AddSessionReturns
    \/ \E sid \in 1..MaxSessions : SessionExpires(sid)

(***************************************************************************)
(* Groups.create                                                           *)
(***************************************************************************)
MaxCreates == 2

\* Two names with the same slug, a privilege group and a reserved name.
GroupNames == {"Team", "team", "cid:1:privileges:read", "guests"}
NoGroup == ""
\* The names that include ':'.
NamesWithColon == {"cid:1:privileges:read"}

\* slugify(name): lower case, ':' replaced by '-'.
slugify(name) ==
    CASE name = "Team" -> "team"
      [] name = "cid:1:privileges:read" -> "cid-1-privileges-read"
      [] OTHER -> name

GroupSlugs == {slugify(name) : name \in GroupNames}

\* Groups.isPrivilegeGroup(name): the name has the form cid:<n>:privileges:<p>.
isPrivilegeGroup(name) == name = "cid:1:privileges:read"

\* Groups.validateGroupName(name): the error it throws, or <<>>.
validateGroupName(name) ==
    IF name = NoGroup THEN <<"[[error:group-name-too-short]]">>
    ELSE IF name = "guests" \/ (~isPrivilegeGroup(name) /\ name \in NamesWithColon)
    THEN <<"[[error:invalid-group-name]]">>
    ELSE IF slugify(name) = NoGroup THEN <<"[[error:invalid-group-name]]">>
    ELSE <<>>

\* The group keys of the database, empty.
NoGroups ==
    [createtime |-> [n \in GroupNames |-> 0],
     objects |-> [n \in GroupNames |-> 0],
     owners |-> [n \in GroupNames |-> {}],
     members |-> [n \in GroupNames |-> {}],
     visible |-> {},
     slugs |-> [s \in GroupSlugs |-> NoGroup]]

\* meta.slugTaken(name) as far as groups go: the slug of the name is a field
\* of 'groupslug:groupname'.
slugTaken(db, name) == db.slugs[slugify(name)] # NoGroup

\* prepareGroupConfig: visible unless hidden or a system group.
isSystemGroup(name) == isPrivilegeGroup(name)
isVisible(call) == ~call.hidden /\ ~isSystemGroup(call.name)

\* The await of processGroupCreation that follows the one at pc.
groupAfter(call, pc) ==
    LET order == <<"sortedSetAdd", "setObject", "setAdd", "sortedSetAddMembers",
                   "sortedSetAddBulk", "setObjectField", "getGroupData", "done">>
        runs(p) == CASE p \in {"setAdd", "sortedSetAddMembers"} -> call.ownerUid # 0
                     [] p = "sortedSetAddBulk" -> isVisible(call)
                     [] p = "setObjectField" -> ~isPrivilegeGroup(call.name)
                     [] OTHER -> TRUE
        at == CHOOSE i \in 1..Len(order) : order[i] = pc
    IN  order[CHOOSE i \in (at + 1)..Len(order) :
                  runs(order[i]) /\ \A k \in (at + 1)..(i - 1) : ~runs(order[k])]

\* The database write of processGroupCreation at pc; c is the call's
\* timestamp and stands for its groupData.
groupWrite(db, call, c) ==
    CASE call.pc = "sortedSetAdd" -> [db EXCEPT !.createtime[call.name] = c]
      [] call.pc = "setObject" -> [db EXCEPT !.objects[call.name] = c]
      [] call.pc = "setAdd" -> [db EXCEPT !.owners[call.name] = @ \cup {call.ownerUid}]
      [] call.pc = "sortedSetAddMembers" ->
            [db EXCEPT !.members[call.name] = @ \cup {call.ownerUid}]
      [] call.pc = "sortedSetAddBulk" -> [db EXCEPT !.visible = @ \cup {call.name}]
      [] call.pc = "setObjectField" -> [db EXCEPT !.slugs[slugify(call.name)] = call.name]
      [] OTHER -> db

\* Groups.create(data) up to its first await: validateGroupName, then the two
\* reads of validateGroupCreation are under way.
GroupsCreate(name, hidden, ownerUid) ==
    /\ Len(groupCalls) < MaxCreates
    /\ groupCalls' = Append(groupCalls,
          LET invalid == validateGroupName(name)
          IN  [name |-> name, hidden |-> hidden, ownerUid |-> ownerUid,
               taken |-> slugTaken(groupDb, name)
                            \/ (isPrivilegeGroup(name) /\ groupDb.createtime[name] # 0),
               reads |-> IF isPrivilegeGroup(name) THEN {"slugTaken", "isSortedSetMember"}
                         ELSE {"slugTaken"},
               exists |-> FALSE, privGroupExists |-> FALSE, wrote |-> FALSE,
               pc |-> IF invalid # <<>> THEN "done" ELSE "validate",
               outcome |-> IF invalid # <<>> THEN Rejected(invalid) ELSE NoResult])
    /\ UNCHANGED groupDb
    /\ OnlyGroup

\* One of the reads of validateGroupCreation settles; after the last one the
\* call throws '[[error:group-already-exists]]' or goes on to its writes.
ValidateGroupCreation(c, read) ==
    /\ c \in 1..Len(groupCalls)
    /\ groupCalls[c].pc = "validate"
    /\ read \in groupCalls[c].reads
    /\ LET call == groupCalls[c]
           seen == IF read = "slugTaken"
                   THEN [call EXCEPT !.exists = slugTaken(groupDb, call.name)]
                   ELSE [call EXCEPT !.privGroupExists = groupDb.createtime[call.name] # 0]
           left == call.reads \ {read}
       IN  groupCalls' = [groupCalls EXCEPT ![c] =
              IF left # {} THEN [seen EXCEPT !.reads = left]
              ELSE IF seen.exists \/ seen.privGroupExists THEN
                  [seen EXCEPT !.reads = {}, !.pc = "done",
                               !.outcome = Rejected(<<"[[error:group-already-exists]]">>)]
              ELSE [seen EXCEPT !.reads = {}, !.pc = "sortedSetAdd"]]
    /\ UNCHANGED groupDb
    /\ OnlyGroup

\* The database command at which call c stands settles: the writes of
\* persistGroupData, addGroupOwner, addToVisibleGroups and storeGroupSlug,
\* then Groups.getGroupData, after which the call returns the group.
ProcessGroupCreation(c) ==
    /\ c \in 1..Len(groupCalls)
    /\ groupCalls[c].pc \notin {"validate", "done"}
    /\ LET call == groupCalls[c]
           next == groupAfter(call, call.pc)
       IN  /\ groupDb' = groupWrite(groupDb, call, c)
           /\ groupCalls' = [groupCalls EXCEPT ![c] =
                 [call EXCEPT !.pc = next,
                              !.wrote = @ \/ call.pc # "getGroupData",
                              !.outcome = IF next = "done" THEN Resolved ELSE @]]
    /\ OnlyGroup

GroupInit == groupDb = NoGroups /\ groupCalls = <<>>

GroupNext ==
    \/ \E name \in GroupNames, hidden \in BOOLEAN, ownerUid \in {0, 1} :
          GroupsCreate(name, hidden, ownerUid)
    \/ \E c \in 1..MaxCreates, read \in {"slugTaken", "isSortedSetMember"} :
          ValidateGroupCreation(c, read)
    \/ \E c \in 1..MaxCreates : ProcessGroupCreation(c)

(***************************************************************************)
(* Profile and cover pictures: User.uploadCroppedPicture and               *)
(* User.updateCoverPicture, src/user/picture.js                            *)
(***************************************************************************)
MaxUploads == 2

NoFile == <<>>
\* The files of upload c: the temporary file written from the image data,
\* its normalised copy, and the file stored in the uploads folder.
TempFile(c) == <<"tmp", c>>
PngFile(c) == <<"png", c>>
UploadedFile(c) == <<"upload", c>>

PictureOps == {"uploadCroppedPicture", "updateCoverPicture"}
\* data.imageData: absent, larger than the maximum, of a type that is not
\* allowed, or acceptable.
ImageDatas == {"none", "big", "badtype", "png"}
\* data.position: absent, two percentages, or anything else.
CoverPositions == {"none", "valid", "invalid"}

\* The field of the user that holds the picture of the operation.
pictureField(op) == IF op = "uploadCroppedPicture" THEN "uploadedpicture" ELSE "cover:url"

\* validateUpload(data, maxSize, allowedTypes): the error thrown, or <<>>.
validateUpload(imageData) ==
    CASE imageData = "none" -> <<"[[error:invalid-data]]">>
      [] imageData = "big" -> <<"[[error:file-too-big]]">>
      [] imageData = "badtype" -> <<"[[error:invalid-image]]">>
      [] OTHER -> <<>>

\* What the operation throws before its first await, or <<>>.
pictureInvalid(op, allowProfileImageUploads, imageData) ==
    IF op = "uploadCroppedPicture" /\ ~allowProfileImageUploads
    THEN <<"[[error:profile-image-uploads-disabled]]">>
    ELSE validateUpload(imageData)

\* getPicturePath: the file the field refers to, when it is one of the
\* user's uploads.
getPicturePath(fields, field) == fields[field]

IdlePicture ==
    [op |-> "none", c |-> 0, pc |-> "idle", path |-> NoFile, keepAll |-> FALSE,
     convert |-> FALSE, position |-> "none", error |-> <<>>, outcome |-> NoResult]

\* The call leaves its try block, by a throw (error # <<>>) or by a return:
\* the finally block deletes picture.path if it is set.
pictureLeave(call, error) ==
    IF call.path # NoFile THEN [call EXCEPT !.pc = "finally", !.error = error]
    ELSE [call EXCEPT !.pc = "done", !.error = error,
                      !.outcome = IF error = <<>> THEN Resolved ELSE Rejected(error)]

\* User.uploadCroppedPicture(data) or User.updateCoverPicture(data) up to
\* its first await.
PictureCall(op, allowProfileImageUploads, imageData, position, keepAll, convert) ==
    /\ picCall.pc \in {"idle", "done"}
    /\ picCall.c < MaxUploads
    /\ LET call == [IdlePicture EXCEPT !.op = op, !.c = picCall.c + 1,
                                       !.keepAll = keepAll, !.convert = convert,
                                       !.position = position]
           invalid == pictureInvalid(op, allowProfileImageUploads, imageData)
       IN  picCall' =
              IF op = "updateCoverPicture" /\ imageData = "none" /\ position # "none"
              THEN IF position = "invalid"
                   THEN pictureLeave(call, <<"[[error:invalid-data]]">>)
                   ELSE [call EXCEPT !.pc = "positionOnly"]
              ELSE IF invalid # <<>> THEN pictureLeave(call, invalid)
              ELSE [call EXCEPT !.pc = "writeImageDataToTempFile"]
    /\ UNCHANGED <<picFields, picFiles>>
    /\ OnlyPicture

\* The await at which the call stands settles, with success (ok) or with an
\* error, and the call runs to its next await.
PictureStep(ok) ==
    /\ picCall.pc \notin {"idle", "done", "finally"}
    /\ LET call == picCall
           c == call.c
           field == pictureField(call.op)
           fail == pictureLeave(call, <<"failed: ">> \o <<call.pc>>)
           old == getPicturePath(picFields, field)
       IN  CASE ~ok ->
                  \* image.normalise and image.uploadImage may have written
                  \* nothing; the other steps change nothing when they fail
                  /\ picCall' = fail
                  /\ UNCHANGED <<picFields, picFiles>>
             [] call.pc = "positionOnly" ->
                  /\ picCall' = pictureLeave(call, <<>>)
                  /\ UNCHANGED <<picFields, picFiles>>
             [] call.pc = "writeImageDataToTempFile" ->
                  /\ picFiles' = picFiles \cup {TempFile(c)}
                  /\ picCall' = [call EXCEPT
                        !.path = TempFile(c),
                        !.pc = IF call.op = "updateCoverPicture" THEN "uploadImage"
                               ELSE IF call.convert THEN "normalise" ELSE "resizeImage"]
                  /\ UNCHANGED picFields
             [] call.pc = "normalise" ->
                  /\ picFiles' = picFiles \cup {PngFile(c)}
                  /\ picCall' = [call EXCEPT !.pc = "deleteConverted"]
                  /\ UNCHANGED picFields
             [] call.pc = "deleteConverted" ->
                  /\ picFiles' = picFiles \ {TempFile(c)}
                  /\ picCall' = [call EXCEPT !.path = PngFile(c), !.pc = "resizeImage"]
                  /\ UNCHANGED picFields
             [] call.pc = "resizeImage" ->
                  /\ picCall' = [call EXCEPT !.pc = "uploadImage"]
                  /\ UNCHANGED <<picFields, picFiles>>
             [] call.pc = "uploadImage" ->
                  /\ picFiles' = picFiles \cup {UploadedFile(c)}
                  /\ picCall' = [call EXCEPT !.pc =
                        IF call.keepAll THEN "update" ELSE "getPicturePath"]
                  /\ UNCHANGED picFields
             [] call.pc = "getPicturePath" ->
                  /\ picCall' = [call EXCEPT !.pc =
                        IF old # NoFile THEN "deletePicture" ELSE "update"]
                  /\ UNCHANGED <<picFields, picFiles>>
             [] call.pc = "deletePicture" ->
                  /\ picFiles' = picFiles \ {old}
                  /\ picCall' = [call EXCEPT !.pc = "update"]
                  /\ UNCHANGED picFields
             [] call.pc = "update" ->
                  /\ picFields' =
                        IF call.op = "uploadCroppedPicture"
                        THEN [picFields EXCEPT !["uploadedpicture"] = UploadedFile(c),
                                               !["picture"] = UploadedFile(c)]
                        ELSE [picFields EXCEPT !["cover:url"] = UploadedFile(c)]
                  /\ picCall' =
                        IF call.op = "updateCoverPicture" /\ call.position # "none"
                        THEN IF call.position = "invalid"
                             THEN pictureLeave(call, <<"[[error:invalid-data]]">>)
                             ELSE [call EXCEPT !.pc = "updateCoverPosition"]
                        ELSE pictureLeave(call, <<>>)
                  /\ UNCHANGED picFiles
             [] call.pc = "updateCoverPosition" ->
                  /\ picCall' = pictureLeave(call, <<>>)
                  /\ UNCHANGED <<picFields, picFiles>>
             [] OTHER -> FALSE
    /\ OnlyPicture

\* The finally block: file.delete(picture.path) settles and the call returns
\* or rethrows.
PictureFinally ==
    /\ picCall.pc = "finally"
    /\ picFiles' = picFiles \ {picCall.path}
    /\ picCall' = [picCall EXCEPT
          !.pc = "done",
          !.outcome = IF picCall.error = <<>> THEN Resolved ELSE Rejected(picCall.error)]
    /\ UNCHANGED picFields
    /\ OnlyPicture

PictureInit ==
    /\ picFields = [f \in {"uploadedpicture", "picture", "cover:url"} |-> NoFile]
    /\ picFiles = {}
    /\ picCall = IdlePicture

PictureNext ==
    \/ \E op \in PictureOps, allow \in BOOLEAN, imageData \in ImageDatas,
          position \in CoverPositions, keepAll \in BOOLEAN, convert \in BOOLEAN :
          PictureCall(op, allow, imageData, position, keepAll, convert)
    \/ \E ok \in BOOLEAN : PictureStep(ok)
    \/ PictureFinally

PostNext ==
    \/ isReadyToPost
    \/ \E d \in PostDelays : SetConfig("postDelay", d)
    \/ \E d \in NewbiePostDelays : SetConfig("newbiePostDelay", d)
    \/ \E d \in InitialPostDelays : SetConfig("initialPostDelay", d)
    \/ \E r \in ReputationThresholds : SetConfig("newbieReputationThreshold", r)
    \/ \E r \in Reputations : SetReputation(r)
    \/ SetLastPostTime
    \/ \E dt \in TickSteps : Tick(dt)

SortedNext ==
    \/ /\ lastCall = IdleCall
       /\ \E keys \in KeysArgs, scores \in ScoresArgs, value \in Values :
             sortedSetsAdd(keys, scores, value)
    \/ /\ lastCall = IdleCall
       /\ \E data \in DataArgs : sortedSetAddBulk(data)
    \/ CallReturns

OtherInit ==
    /\ TestSocketInit
    /\ BootInit
    /\ ConnInit
    /\ JobsInit
    /\ WatchInit
    /\ CoverInit
    /\ InviteInit
    /\ LockoutInit
    /\ SessionInit
    /\ GroupInit
    /\ PictureInit

Init == SortedInit /\ PostInit /\ ComposerInit /\ ListenDefault /\ OtherInit

SortedSpec == Init /\ [][SortedNext]_vars

PostSpec == Init /\ [][PostNext]_vars

ComposerSpec == Init /\ [][ComposerNext]_vars

\* The server may be configured in any way when listen() is exercised.
InitAnyServer == SortedInit /\ PostInit /\ ComposerInit /\ ListenInit /\ OtherInit

ListenSpec == InitAnyServer /\ [][ListenNext]_vars

TestSocketSpec == Init /\ [][TestSocketNext]_vars

BootSpec == Init /\ [][BootNext]_vars

ConnSpec == Init /\ [][ConnNext]_vars

JobsSpec == Init /\ [][JobsNext]_vars

WatchSpec == Init /\ [][WatchNext]_vars

CoverSpec == Init /\ [][CoverNext]_vars

InviteSpec == Init /\ [][InviteNext]_vars

InviteDeleteSpec == Init /\ [][InviteDeleteNext]_vars

LockoutSpec == Init /\ [][LockoutNext]_vars

SessionSpec == Init /\ [][SessionNext]_vars

GroupSpec == Init /\ [][GroupNext]_vars

PictureSpec == Init /\ [][PictureNext]_vars

(***************************************************************************)
(* Properties of the sorted-set adapter                                    *)
(***************************************************************************)
Distinct(seq) == \A i, j \in 1..Len(seq) : i # j => seq[i] # seq[j]

\* The number a valid score stands for.
ScoreValue(v) == IF v.t = "number" THEN v.n ELSE DecimalValue(v.s)

ScoreGiven(call, i) ==
    ScoreValue(IF call.scores.isArray THEN call.scores.items[i] ELSE call.scores.single)

NothingWritten == lastCall.writes = <<>> /\ objects = lastCall.before

\* C1: a sortedSetsAdd with a non-empty keys array, and a sortedSetAddBulk with
\* a non-empty data array, that passes validation issues exactly one bulk
\* write holding one upsert per key (item), in order; a call whose keys or
\* data is not an array or is empty writes nothing and returns without error.
C1_OneBulkWritePerCall ==
    /\ lastCall.fn = "sortedSetsAdd" =>
          IF ~lastCall.keys.isArray \/ Len(lastCall.keys.items) = 0
          THEN NothingWritten /\ lastCall.outcome = Returned
          ELSE ~lastCall.outcome.threw =>
                 /\ Len(lastCall.writes) = 1
                 /\ Len(lastCall.writes[1]) = Len(lastCall.keys.items)
                 /\ \A i \in 1..Len(lastCall.keys.items) :
                       /\ lastCall.writes[1][i].upsert
                       /\ lastCall.writes[1][i]._key = lastCall.keys.items[i]
    /\ lastCall.fn = "sortedSetAddBulk" =>
          IF ~lastCall.data.isArray \/ Len(lastCall.data.items) = 0
          THEN NothingWritten /\ lastCall.outcome = Returned
          ELSE ~lastCall.outcome.threw =>
                 /\ Len(lastCall.writes) = 1
                 /\ Len(lastCall.writes[1]) = Len(lastCall.data.items)
                 /\ \A i \in 1..Len(lastCall.data.items) :
                       /\ lastCall.writes[1][i].upsert
                       /\ lastCall.writes[1][i]._key = lastCall.data.items[i].key

C1_Witness ==
    /\ lastCall.fn = "sortedSetsAdd"
    /\ Len(lastCall.keys.items) = 2
    /\ ~lastCall.outcome.threw
    /\ Len(lastCall.writes) = 1
    /\ Len(lastCall.writes[1]) = 2

\* C2: after a successful sortedSetsAdd with pairwise distinct keys, every
\* set keys[i] holds the value (as a string) with the score given for it, every
\* other member of every set is as it was before the call, and no set ever
\* holds two entries for one value.
C2_AddSetsScoreOnce ==
    /\ \A d1, d2 \in objects : (d1._key = d2._key /\ d1.value = d2.value) => d1 = d2
    /\ ( /\ lastCall.fn = "sortedSetsAdd"
         /\ lastCall.keys.isArray
         /\ Len(lastCall.keys.items) > 0
         /\ ~lastCall.outcome.threw
         /\ Distinct(lastCall.keys.items) ) =>
          LET member == StringOf(lastCall.value)
              added(d) == d.value = member
                          /\ \E i \in 1..Len(lastCall.keys.items) : lastCall.keys.items[i] = d._key
          IN  /\ \A i \in 1..Len(lastCall.keys.items) :
                    [_key |-> lastCall.keys.items[i], value |-> member,
                     score |-> ScoreGiven(lastCall, i)] \in objects
              /\ \A d \in objects : ~added(d) => d \in lastCall.before
              /\ \A d \in lastCall.before : ~added(d) => d \in objects

\* An existing member gets a new score and another member of the same set stays.
C2_Witness ==
    /\ lastCall.fn = "sortedSetsAdd"
    /\ ~lastCall.outcome.threw
    /\ Len(lastCall.keys.items) = 2
    /\ Distinct(lastCall.keys.items)
    /\ \E d \in lastCall.before :
          /\ d._key = lastCall.keys.items[1]
          /\ d.value = StringOf(lastCall.value)
          /\ d.score # ScoreGiven(lastCall, 1)
    /\ \E d \in lastCall.before :
          d._key = lastCall.keys.items[1] /\ d.value # StringOf(lastCall.value)

SomeScoreInvalid(call) ==
    IF call.scores.isArray
    THEN \E i \in 1..Len(call.scores.items) : ~isNumber(call.scores.items[i])
    ELSE ~isNumber(call.scores.single)

InvalidScoreMessage(msg) == StartsWith(msg, <<"[[error:invalid-score, ">>)

\* C3 as stated: sortedSetsAdd throws invalid-data whenever scores is an array
\* whose length differs from that of keys and invalid-score whenever a score is
\* not a number, sortedSetAddBulk throws invalid-score whenever an item's score
\* is not a number, and nothing is written in these cases.
C3_AsStated ==
    /\ ( /\ lastCall.fn = "sortedSetsAdd"
         /\ lastCall.keys.isArray
         /\ lastCall.scores.isArray
         /\ Len(lastCall.scores.items) # Len(lastCall.keys.items) ) =>
          lastCall.outcome = Threw(invalidData) /\ NothingWritten
    /\ ( /\ lastCall.fn = "sortedSetsAdd"
         /\ lastCall.keys.isArray
         /\ ~(lastCall.scores.isArray
              /\ Len(lastCall.scores.items) # Len(lastCall.keys.items))
         /\ SomeScoreInvalid(lastCall) ) =>
          /\ lastCall.outcome.threw
          /\ InvalidScoreMessage(lastCall.outcome.message)
          /\ NothingWritten
    /\ ( /\ lastCall.fn = "sortedSetAddBulk"
         /\ lastCall.data.isArray
         /\ \E i \in 1..Len(lastCall.data.items) : ~isNumber(lastCall.data.items[i].score) ) =>
          /\ lastCall.outcome.threw
          /\ InvalidScoreMessage(lastCall.outcome.message)
          /\ NothingWritten

\* C3, amended: for a non-empty keys array sortedSetsAdd throws invalid-data
\* when scores is an array of another length, and invalid-score when scores is
\* a single value that is not a number or an array of the right length with an
\* entry that is not a number; sortedSetAddBulk throws invalid-score when an
\* item's score is not a number; in each case nothing is written. With an empty
\* keys array the scores are not validated: the call returns without error and
\* writes nothing.
C3_ValidationAllOrNothing ==
    /\ ( /\ lastCall.fn = "sortedSetsAdd"
         /\ lastCall.keys.isArray
         /\ Len(lastCall.keys.items) > 0
         /\ lastCall.scores.isArray
         /\ Len(lastCall.scores.items) # Len(lastCall.keys.items) ) =>
          lastCall.outcome = Threw(invalidData) /\ NothingWritten
    /\ ( /\ lastCall.fn = "sortedSetsAdd"
         /\ lastCall.keys.isArray
         /\ Len(lastCall.keys.items) > 0
         /\ ~(lastCall.scores.isArray
              /\ Len(lastCall.scores.items) # Len(lastCall.keys.items))
         /\ SomeScoreInvalid(lastCall) ) =>
          /\ lastCall.outcome.threw
          /\ InvalidScoreMessage(lastCall.outcome.message)
          /\ NothingWritten
    /\ ( /\ lastCall.fn = "sortedSetsAdd"
         /\ lastCall.keys.isArray
         /\ Len(lastCall.keys.items) = 0 ) =>
          lastCall.outcome = Returned /\ NothingWritten
    /\ ( /\ lastCall.fn = "sortedSetAddBulk"
         /\ lastCall.data.isArray
         /\ \E i \in 1..Len(lastCall.data.items) : ~isNumber(lastCall.data.items[i].score) ) =>
          /\ lastCall.outcome.threw
          /\ InvalidScoreMessage(lastCall.outcome.message)
          /\ NothingWritten

\* A valid item precedes the invalid one, and a valid score precedes the
\* invalid one of an array of scores.
C3_Witness ==
    \/ /\ lastCall.fn = "sortedSetAddBulk"
       /\ lastCall.outcome.threw
       /\ Len(lastCall.data.items) = 2
       /\ isNumber(lastCall.data.items[1].score)
       /\ lastCall.before # {}
    \/ /\ lastCall.fn = "sortedSetsAdd"
       /\ lastCall.outcome.threw
       /\ lastCall.scores.isArray
       /\ Len(lastCall.scores.items) = 2
       /\ Len(lastCall.keys.items) = 2
       /\ isNumber(lastCall.scores.items[1])
       /\ lastCall.before # {}

(***************************************************************************)
(* Properties of User.isReadyToPost                                        *)
(***************************************************************************)
PostedWithin(d) == now - userData.lastposttime < d * 1000

TooNew == now - userData.joindate < config.initialPostDelay * 1000

NewbieLimited ==
    /\ config.newbieReputationThreshold > userData.reputation
    /\ PostedWithin(config.newbiePostDelay)

NewbiePrefix == <<"[[error:too-many-posts", "-newbie">>
NewbieMinutesPrefix == <<"[[error:too-many-posts", "-newbie", "-minutes">>

C7_ErrorsAnsweredOnce ==
    /\ ~escaped
    /\ Len(responses) = (IF composerPc = "done" THEN 1 ELSE 0)
    /\ composerPc = "done" =>
          /\ IF raised = NoError
             THEN responses[1].kind = "redirect"
             ELSE responses[1] = [kind |-> "noScriptErrors", status |-> 400,
                                  location |-> <<>>, message |-> raised]
          /\ (body.defined /\ (body.content = Absent
                                \/ (body.tid = Absent /\ body.cid = Absent))) =>
                raised = <<"[[error:invalid-data]]">>
          /\ result.kind = "falsy" => raised = <<"[[error:invalid-data]]">>
          /\ raised = NoError => result.kind = "object"

\* The post call threw after the queue check passed.
C7_Witness ==
    /\ composerPc = "done"
    /\ action = "reply"
    /\ raised = <<"[[error:no-privileges]]">>
    /\ result = NoResultYet
    /\ Len(responses) = 1
    /\ responses[1].status = 400

(***************************************************************************)
(* Properties of listen()                                                  *)
(***************************************************************************)
ListenHasRun == listenPc \in {"resolved", "rejected"}

\* C8 as stated: once listen has run for a TCP port other than 80 and 443 the
\* setting 'trust proxy' is on, whatever trust_proxy is configured; on port 80
\* or 443 it is on only when trust_proxy is exactly true.
C8_AsStated ==
    (ListenHasRun /\ target.returned /\ ~target.isSocket /\ target.port.t = "number") =>
        IF target.port.n \notin {80, 443}
        THEN trustProxy = TRUE
        ELSE trustProxy = TRUE => trustProxyCfg = Bool(TRUE)

\* C9 as stated: a returned target is a socket target (the value as a string,
\* port null) for a non-numeric string, or a TCP target (empty socket path, the
\* parsed port, which is a number) for a number, a numeric string or an array,
\* whose first entry is used; an empty array or a falsy first entry exits.
C9_AsStated ==
    /\ listenPc # "start" =>
          IF rawPort.isArray /\ (Len(rawPort.items) = 0 \/ Falsy(rawPort.items[1]))
          THEN target = Exits
          ELSE target.returned
    /\ target.returned =>
          \/ /\ target.isSocket
             /\ ~rawPort.isArray
             /\ rawPort.single.t = "string"
             /\ ToNumber(rawPort.single) = NaN
             /\ target.socketPath = rawPort.single.s
             /\ target.port = Null
          \/ /\ ~target.isSocket
             /\ target.socketPath = <<>>
             /\ target.port.t = "number"
             /\ LET used == IF rawPort.isArray THEN rawPort.items[1] ELSE rawPort.single
                IN  target.port = ToNumber(used)

\* C10: when listen() has settled for a UNIX socket the umask is the one
\* before the call, whether the socket test failed, server.listen failed or
\* the bind succeeded; for a TCP port the umask is never changed.
C10_UmaskRestored ==
    /\ (ListenHasRun /\ target.isSocket) => umask = umaskBefore
    /\ (target.returned /\ ~target.isSocket) => umask = umaskBefore

\* server.listen failed on a socket, with a umask that is not 0000.
C10_Witness ==
    /\ listenPc = "rejected"
    /\ target.isSocket
    /\ failedAt = "listen"
    /\ umaskBefore = 18
    /\ umask = 18

(***************************************************************************)
(* Properties of testSocket                                                *)
(***************************************************************************)
TestSocketSettled == ts.pc \in {"done", "connected"}

FileUntouched == ts.unlinks = 0 /\ tsFile = ts.fileBefore

\* The outcomes of testSocket that do not depend on fs.unlink.
TestSocketOtherOutcomes ==
    /\ ts.promise.settled
    /\ ts.path.t # "string" =>
          /\ ts.promise = Rejected(<<"invalid socket path : ">> \o StringOf(ts.path))
          /\ FileUntouched
    /\ ts.path.t = "string" /\ ts.fileBefore = "absent" =>
          ts.promise = Resolved /\ FileUntouched
    /\ ts.path.t = "string" /\ ts.fileBefore = "live" =>
          ts.promise = Rejected(<<"port-in-use">>) /\ FileUntouched
    /\ ts.path.t = "string" /\ ts.fileBefore = "blocked" =>
          ts.promise = Rejected(<<ts.connErr>>) /\ FileUntouched

\* C11 as stated: testSocket settles with the documented outcome, and after
\* ECONNREFUSED it has unlinked the stale socket file and resolves.
C11_AsStated ==
    TestSocketSettled =>
        /\ TestSocketOtherOutcomes
        /\ ts.connErr = "ECONNREFUSED" =>
              ts.promise = Resolved /\ ts.unlinks = 1 /\ tsFile = "absent"

\* C11: testSocket settles with the documented outcome; after ECONNREFUSED it
\* calls fs.unlink once and resolves with the file gone when the unlink
\* succeeds, and rejects with the unlink's error, the file still in place,
\* when it fails. A later resolve or reject never changes the outcome.
C11_TestSocketOutcome ==
    TestSocketSettled =>
        /\ TestSocketOtherOutcomes
        /\ ts.connErr = "ECONNREFUSED" =>
              /\ ts.unlinks = 1
              /\ IF ts.unlinkErr = "none"
                 THEN ts.promise = Resolved /\ tsFile = "absent"
                 ELSE ts.promise = Rejected(<<ts.unlinkErr>>) /\ tsFile = ts.fileBefore

C11_Witness ==
    /\ ts.pc = "done"
    /\ ts.connErr = "ECONNREFUSED"
    /\ ts.unlinkErr = "EPERM"
    /\ ts.promise = Rejected(<<"EPERM">>)
    /\ tsFile = "stale"

(***************************************************************************)
(* Properties of the bootstrap                                             *)
(***************************************************************************)
\* The bootstrap steps in the documented order.
DocumentedOrder ==
    <<"setupExpressApp", "meta.themes.setupPaths", "plugins.init",
      "static:assets.prepare", "static:app.preload", "routes", "privileges.init",
      "meta.blacklist.load", "flags.init", "analytics.init", "errors.init",
      "topicEvents.init", "event:nodebb.ready", "action:nodebb.ready">>

Documented(step) == \E i \in 1..Len(DocumentedOrder) : DocumentedOrder[i] = step

ReadyNotification(step) == step \in {"event:nodebb.ready", "action:nodebb.ready"}

Emitted(step) == \E i \in 1..Len(boot.done) : boot.done[i] = step

\* exports.listen has reached its call of listen().
ListenCalled ==
    /\ boot.pc \in 1..Len(BootSteps(boot.runJobs))
    /\ BootSteps(boot.runJobs)[boot.pc] = "listen"

\* C12: listen() is called, and the server listens, only once every documented
\* bootstrap step has completed, each exactly once and in the documented
\* order, the two ready notifications having been emitted last; when a step
\* before the notifications fails, exports.listen rejects with that error, no
\* ready notification is emitted and the server does not listen.
C12_ListenAfterBootstrap ==
    /\ ListenCalled \/ boot.listening =>
          SelectSeq(boot.done, Documented) = DocumentedOrder
    /\ boot.failedStep # "none" /\ ~ReadyNotification(boot.failedStep)
            /\ boot.failedStep # "listen" =>
          /\ boot.outcome.threw
          /\ ~boot.listening
          /\ ~Emitted("event:nodebb.ready") /\ ~Emitted("action:nodebb.ready")
          /\ ~Emitted("listen")

C12_Witness ==
    /\ boot.failedStep = "flags.init"
    /\ boot.outcome = Rejected(<<"boom">>)
    /\ Len(boot.done) = 11

(***************************************************************************)
(* Properties of the connection bookkeeping                                *)
(***************************************************************************)
\* C13 as stated: getConnectionCount() is the number of connections that have
\* been opened and have not yet closed, connections that share a remote
\* address and port included.
C13_AsStated == getConnectionCount = Cardinality(OpenConns)

\* C14 as stated: destroy() destroys every connection that is open at the
\* time of the call; once its promise has resolved no connection is open,
\* and it rejects when server.close() reported an error.
C14_AsStated ==
    destroyCall.pc # "idle" =>
        /\ \A id \in destroyCall.openAtCall : conns[id].destroyed
        /\ destroyCall.outcome = Resolved => OpenConns = {}
        /\ destroyCall.closeErr /\ destroyCall.pc = "settled" => destroyCall.outcome.threw

(***************************************************************************)
(* Properties of the user jobs                                             *)
(***************************************************************************)
RunningJobs == {i \in 1..Len(cronJobs) : cronJobs[i].running}

JobNames == {"digest.daily", "digest.weekly", "digest.monthly", "reset.clean"}

\* C15: every running cron job is the one recorded in the jobs table under
\* its own name, so no two running jobs share a name; after startJobs
\* exactly the four jobs are running, after stopJobs none is.
C15_JobsTable ==
    /\ \A i \in RunningJobs :
          cronJobs[i].name \in DOMAIN jobs /\ jobs[cronJobs[i].name] = i
    /\ \A i, j \in RunningJobs : cronJobs[i].name = cronJobs[j].name => i = j
    /\ lastJobsCall = "startJobs" =>
          {cronJobs[i].name : i \in RunningJobs} = JobNames /\ DOMAIN jobs = JobNames
    /\ lastJobsCall = "stopJobs" => RunningJobs = {} /\ DOMAIN jobs = {}

C15_Witness ==
    /\ lastJobsCall = "startJobs"
    /\ Len(cronJobs) = 8
    /\ RunningJobs = 5..8

FinishedFirings == {f \in 1..Len(firings) : firings[f].pc = "done"}

\* The daily and monthly jobs call only their own interval's digest; the
\* increments of the weekly firings are the counter values 1, 2, ... once each.
OwnDigestOnly ==
    /\ \A f \in FinishedFirings :
          firings[f].name # "digest.weekly" => firings[f].calls = <<firings[f].term>>
    /\ \A f, g \in 1..Len(firings) :
          firings[f].counter > 0 /\ firings[f].counter = firings[g].counter => f = g
    /\ \A f \in 1..Len(firings) : firings[f].counter \in 0..biweeklydigestcounter

\* C16 as stated: every firing of digest.weekly executes the 'week' digest
\* exactly once, preceded by the 'biweek' digest exactly when the incremented
\* counter is odd.
C16_AsStated ==
    /\ OwnDigestOnly
    /\ \A f \in FinishedFirings :
          firings[f].name = "digest.weekly" =>
              firings[f].calls =
                  IF firings[f].counter % 2 = 1 THEN <<"biweek", "week">> ELSE <<"week">>

\* C16: a firing of digest.weekly whose increment succeeds executes the
\* 'biweek' digest first exactly when the incremented counter is odd, and the
\* 'week' digest exactly once unless that 'biweek' digest failed; a firing
\* whose increment fails executes no digest.
C16_WeeklyDigest ==
    /\ OwnDigestOnly
    /\ \A f \in FinishedFirings :
          firings[f].name = "digest.weekly" =>
              firings[f].calls =
                  IF firings[f].failed = "increment" THEN <<>>
                  ELSE IF firings[f].counter % 2 = 0 THEN <<"week">>
                  ELSE IF firings[f].failed = "biweek" THEN <<"biweek">>
                  ELSE <<"biweek", "week">>

C16_Witness ==
    /\ Len(firings) = 2
    /\ FinishedFirings = {1, 2}
    /\ firings[1].name = "digest.weekly" /\ firings[2].name = "digest.weekly"
    /\ firings[1].calls = <<"week">> /\ firings[1].counter = 2
    /\ firings[2].calls = <<"biweek">> /\ firings[2].failed = "biweek"

(***************************************************************************)
(* Properties of Categories.setWatchState                                  *)
(***************************************************************************)
\* C17: once the handler has passed its checks, a DELETE has called
\* api.categories.setWatchState once with the integer of the configured
\* default state, whatever the body's state; any other method with a state
\* that is a key of watchStates has called it once with that state's integer;
\* any other method with any other state has thrown '[[error:invalid-data]]',
\* called nothing and sent no response.
C17_WatchState ==
    watch.pc # "idle" =>
        IF watch.method = "DELETE" THEN
            watch.apiCalls = <<watchStates[watch.defaultName]>>
        ELSE IF \E name \in DOMAIN watchStates : watch.state = Str(<<name>>) THEN
            watch.apiCalls = <<watchStates[watch.state.s[1]]>>
        ELSE
            /\ watch.outcome = Rejected(<<"[[error:invalid-data]]">>)
            /\ watch.apiCalls = <<>>
            /\ watch.responses = <<>>

C17_Witness ==
    /\ watch.method = "DELETE"
    /\ watch.state = Str(<<"ignoring">>)
    /\ watch.defaultName = "tracking"
    /\ watch.apiCalls = <<3>>
    /\ watch.responses = <<200>>

(***************************************************************************)
(* Properties of updateCoverPosition                                       *)
(***************************************************************************)
\* A percentage: a decimal numeral, with at most one point, and a percent sign.
IsPercentage(s) ==
    /\ Len(s) >= 2
    /\ s[Len(s)] = "%"
    /\ \A i \in 1..(Len(s) - 1) : IsDigit(s[i]) \/ s[i] = "."
    /\ \E i \in 1..(Len(s) - 1) : IsDigit(s[i])
    /\ Cardinality({i \in 1..(Len(s) - 1) : s[i] = "."}) <= 1

TwoPercentages(s) ==
    \E i \in 1..Len(s) :
        /\ s[i] \in {" ", "\t", "\n"}
        /\ IsPercentage(SubSeq(s, 1, i - 1))
        /\ IsPercentage(SubSeq(s, i + 1, Len(s)))

\* C18 as stated: the position is stored only when it is two percentages
\* separated by one whitespace character; anything else is rejected with
\* '[[error:invalid-data]]' and the stored field is left unchanged.
C18_AsStated ==
    cover.pc = "done" =>
        /\ coverPosition # cover.before => TwoPercentages(coverPosition)
        /\ ~TwoPercentages(cover.position) =>
              /\ cover.outcome = Rejected(<<"[[error:invalid-data]]">>)
              /\ coverPosition = cover.before

(***************************************************************************)
(* Properties of the invitations                                           *)
(***************************************************************************)
InviteDone(c) == inviteCalls[c].pc = "done"

\* C19 as stated: sendInvitationEmail throws '[[error:email-invited]]' only
\* when the inviter has a pending invitation to the email whose token is
\* still valid, and then records nothing and sends no email; for a registered
\* email it returns and records nothing; for a falsy uid it throws
\* '[[error:invalid-uid]]'; and no inviter ever holds two pending
\* invitations to the same email.
C19_AsStated ==
    /\ \A c \in 1..Len(inviteCalls) :
          /\ InviteDone(c)
                /\ inviteCalls[c].outcome = Rejected(<<"[[error:email-invited]]">>) =>
                inviteCalls[c].sawPending /\ ~inviteCalls[c].sent
          /\ InviteDone(c) /\ inviteCalls[c].email \in RegisteredEmails
                /\ inviteCalls[c].uid # 0 =>
                inviteCalls[c].outcome = Resolved /\ ~inviteCalls[c].sent
          /\ inviteCalls[c].uid = 0 =>
                inviteCalls[c].outcome = Rejected(<<"[[error:invalid-uid]]">>)
    /\ \A uid \in InviteUids, email \in InviteEmails :
          Cardinality(PendingTokens(invitations, uid, email)) <= 1

\* Every sendInvitationEmail, deleteInvitation and deleteInvitationKey call
\* made has run to completion.
InvitationsQuiet ==
    /\ \A c \in 1..Len(inviteCalls) : inviteCalls[c].pc = "done"
    /\ \A c \in 1..Len(deleteCalls) : deleteCalls[c].pc = "done"

\* C22 as stated: once every sendInvitationEmail, deleteInvitation and
\* deleteInvitationKey call has run to completion, a uid is a member of
\* 'invitation:uids' if and only if the set invitation:uid:<uid> is not
\* empty.
C22_AsStated ==
    InvitationsQuiet =>
        \A uid \in InviteUids :
            uid \in invitations.uids <=> invitations.uidInvites[uid] # {}

(***************************************************************************)
(* Properties of the lockout                                               *)
(***************************************************************************)
\* C20 as stated: the logAttempt call that raises the counter above
\* meta.config.loginAttempts throws '[[error:account-locked]]', and while
\* the lockout is recorded no logAttempt for the account returns without
\* error, whatever the interleaving of the calls.
C20_AsStated ==
    \A c \in 1..Len(attemptCalls) :
        attemptCalls[c].pc = "done" /\ attemptCalls[c].attempts > 0 =>
            IF attemptCalls[c].attempts > loginAttempts
            THEN attemptCalls[c].outcome = Rejected(<<"[[error:account-locked]]">>)
            ELSE ~attemptCalls[c].lockedAtReturn

(***************************************************************************)
(* Properties of the sessions                                              *)
(***************************************************************************)
ActiveSessions == {uidSessions[i] : i \in 1..Len(uidSessions)} \cap sessionStore

\* C21 as stated: with maxUserSessions = m > 0, once addSession has completed
\* for a uid > 0 the user has at most m active sessions and the session just
\* added is one of them.
C21_AsStated ==
    sessionCall.pc = "done" /\ sessionCall.max > 0 /\ parseInt(sessionCall.uid).n > 0 =>
        /\ Cardinality(ActiveSessions) <= sessionCall.max
        /\ sessionCall.sid \in ActiveSessions

(***************************************************************************)
(* Properties of Groups.create                                             *)
(***************************************************************************)
GroupCreated(c) == groupCalls[c].pc = "done" /\ groupCalls[c].outcome = Resolved

\* A create called when the slug of its name was taken (or, for a privilege
\* group, when its name was in groups:createtime) throws
\* '[[error:group-already-exists]]' and writes nothing.
TakenIsRejected ==
    \A c \in 1..Len(groupCalls) :
        groupCalls[c].taken /\ groupCalls[c].pc = "done"
            /\ validateGroupName(groupCalls[c].name) = <<>> =>
            /\ groupCalls[c].outcome = Rejected(<<"[[error:group-already-exists]]">>)
            /\ ~groupCalls[c].wrote

\* C23 as stated: Groups.create never succeeds twice for the same group
\* name, also when two creates of the name run concurrently, and a create
\* whose name is taken throws '[[error:group-already-exists]]' and leaves
\* the stored groups unchanged.
C23_AsStated ==
    /\ \A c, d \in 1..Len(groupCalls) :
          GroupCreated(c) /\ GroupCreated(d) /\ groupCalls[c].name = groupCalls[d].name =>
              c = d
    /\ TakenIsRejected

(***************************************************************************)
(* Properties of the picture uploads                                       *)
(***************************************************************************)
PictureFailed == picCall.pc = "done" /\ picCall.outcome.threw

\* The temporary file written for the upload is deleted once the call has
\* completed, whatever its outcome.
TempFileDeleted == picCall.pc = "done" => TempFile(picCall.c) \notin picFiles

\* C24 as stated: when uploadCroppedPicture or updateCoverPicture has failed
\* at any step, the user's picture field still refers to a picture file that
\* has not been deleted, and the temporary file of the upload is deleted on
\* every path.
C24_AsStated ==
    /\ PictureFailed =>
          LET value == picFields[pictureField(picCall.op)]
          IN  value = NoFile \/ value \in picFiles
    /\ TempFileDeleted

====
